---- MODULE Spec2Model ----
(***************************************************************************)
(* A model of the ntfy broker engine (server/server.go, server/visitor.go):*)
(* the topic registry, the visitor registry with its limiters, the message *)
(* cache, the publish and subscribe handlers, the manager loop and the     *)
(* scheduled-delivery loop.                                                *)
(*                                                                         *)
(* Time is a discrete clock `now` (unix seconds, scaled).  A handler is    *)
(* cut into steps at the points where another goroutine can interleave:    *)
(* every critical section of Server.mu is inside one step, and so is every *)
(* call into the cache or into a topic.                                    *)
(*                                                                         *)
(* topic.go, the cache backends and util's limiters are not part of the    *)
(* sources at hand; they are modelled from sections 4.1, 4.2 and 4.4 of    *)
(* the specification and from the way server.go calls them.                *)
(***************************************************************************)
EXTENDS Integers, Sequences, FiniteSets, TLC

\* ---------------------------------------------------------------- bounds
MaxTime == 2
MaxConn == 2
MaxMsg == 2

Conns == 1..MaxConn
Msgs == 1..MaxMsg

\* ------------------------------------------------------ program constants
disallowedTopics == {"docs", "static", "file"}
sinceAllMessages == 0
sinceNoMessages == 1
\* visitorExpungeAfter = oneDay: one time unit of the model is a day
visitorExpungeAfter == 1

VARIABLES
  now,          \* time.Now().Unix()
  config,       \* Server.config
  topics,       \* Server.topics: topic name -> topic object (0: no entry)
  topicGen,     \* number of topic objects ever made by newTopic, per name
  subscribers,  \* the subscriber maps of all topic objects
  cache,        \* Server.cache: entries in insertion order
  visitors,     \* Server.visitors: ip -> visitor object (0: no entry)
  vobjs,        \* the visitor objects ever made by newVisitor
  messages,     \* Server.messages
  pubs,         \* the publish requests (one per message id)
  conns,        \* the subscribe requests
  wlog,         \* what was written to each subscriber connection
  inflight,     \* callback invocations started by topic.Publish, not yet run
  fanouts,      \* history: the calls of topic.Publish, in order
  pushed,       \* history: messages handed to the push hook
  mailed,       \* history: messages handed to the mailer
  lastManager,  \* when runManager last ran updateStatsAndPrune
  countErr,     \* history: the topics whose MessageCount failed in that run
  lastSender,   \* when runAtSender last ran sendDelayedMessages
  batch,        \* history: the last batch of sendDelayedMessages
  writing,      \* the callback invocations inside a write to each connection
  closeChan,    \* Server.closeChan is closed
  lastFirebase, \* when runFirebaseKeepliver last sent a keepalive
  loopPC,       \* runManager, runAtSender, runFirebaseKeepliver: running or returned
  req,          \* the header and query values of the last request given to readParam
  ret,          \* what readParam returned for it
  vlim,         \* one visitor in detail: its lock mu, its limiter pointers, SetUser and the readers
  srv           \* the life cycle of the Server: its mutex mu, Run, the unix-listener goroutine, Stop and the shutdown channel

vars == <<now, config, topics, topicGen, subscribers, cache, visitors, vobjs,
          messages, pubs, conns, wlog, inflight, fanouts, pushed, mailed,
          lastManager, countErr, lastSender, batch, writing, closeChan, lastFirebase, loopPC, req, ret, vlim, srv>>

\* ---------------------------------------------------------------- helpers
\* a token bucket never holds more than its burst
Min(a, b) == IF a < b THEN a ELSE b

\* util.InIntList / util.InStringList
InList(haystack, needle) == \E i \in DOMAIN haystack : haystack[i] = needle

\* util.InStringListAll: every needle is in the haystack
InStringListAll(haystack, needles) ==
  \A i \in DOMAIN needles : InList(haystack, needles[i])

\* ------------------------------------------------------- the parameters
\* A parameter value is a sequence of characters; " " stands for white space
MaxValueLen == 2

Chars == {" ", "x", "y"}

Values == UNION {[1..n -> Chars] : n \in 0..MaxValueLen}

\* strings.TrimSpace
RECURSIVE TrimLeft(_)
TrimLeft(v) == IF v # <<>> /\ Head(v) = " " THEN TrimLeft(Tail(v)) ELSE v

RECURSIVE TrimRight(_)
TrimRight(v) ==
  IF v # <<>> /\ v[Len(v)] = " " THEN TrimRight(SubSeq(v, 1, Len(v) - 1)) ELSE v

TrimSpace(v) == TrimRight(TrimLeft(v))

\* the loop of readParam over the values vs[i..] of the aliases, in order:
\* the first value that is not empty is returned, trimmed
RECURSIVE readParamLoop(_, _)
readParamLoop(vs, i) ==
  IF i > Len(vs) THEN [found |-> FALSE, value |-> <<>>]
  ELSE IF vs[i] # <<>> THEN [found |-> TRUE, value |-> TrimSpace(vs[i])]
  ELSE readParamLoop(vs, i + 1)

\* readParam(r, names...): header[i] is r.Header.Get(names[i]) and query[i]
\* is r.URL.Query().Get(strings.ToLower(names[i]))
readParam(header, query) ==
  LET h == readParamLoop(header, 1)
      q == readParamLoop(query, 1)
  IN  IF h.found THEN h.value ELSE IF q.found THEN q.value ELSE <<>>

\* ------------------------------------------------------------- the cache
\* createCache: the backend New picks for a configuration
createCache(conf) ==
  IF conf.CacheDuration = 0 THEN "nopCache"
  ELSE IF conf.CacheFile # "" THEN "sqliteCache"
  ELSE "memCache"

\* cache.AddMessage: the entry is scheduled (published = FALSE) iff its time
\* is in the future when it is added; the no-op cache stores nothing
AddMessage(c, id, topic, time) ==
  IF createCache(config) = "nopCache" THEN c
  ELSE Append(c, [id |-> id, topic |-> topic, time |-> time, published |-> time <= now])

\* the entries of s whose time is t, t+1, ..., hi, by time, each group in
\* the order of s (a stable sort by time)
RECURSIVE ByTime(_, _, _)
ByTime(s, t, hi) ==
  IF t > hi THEN <<>>
  ELSE SelectSeq(s, LAMBDA e : e.time = t) \o ByTime(s, t + 1, hi)

MaxEntryTime(s) ==
  IF s = <<>> THEN 0
  ELSE CHOOSE t \in {s[i].time : i \in DOMAIN s} :
         \A i \in DOMAIN s : s[i].time <= t

\* cache.Messages(topic, since, scheduled)
CacheMessages(c, topic, since, scheduled) ==
  LET hit(e) == /\ e.topic = topic
                /\ e.time >= since
                /\ (e.published \/ scheduled)
      sel == SelectSeq(c, hit)
  IN  ByTime(sel, 0, MaxEntryTime(sel))

\* cache.MessagesDue()
MessagesDue(c) ==
  LET sel == SelectSeq(c, LAMBDA e : ~e.published /\ e.time <= now)
  IN  ByTime(sel, 0, MaxEntryTime(sel))

\* cache.MarkPublished(m)
MarkPublished(c, id) ==
  [i \in DOMAIN c |-> IF c[i].id = id THEN [c[i] EXCEPT !.published = TRUE] ELSE c[i]]

\* cache.MessageCount(topic)
MessageCount(c, topic) == Len(SelectSeq(c, LAMBDA e : e.topic = topic))

\* cache.Prune(olderThan): scheduled entries stay until they are delivered
Prune(c, olderThan) ==
  SelectSeq(c, LAMBDA e : ~e.published \/ e.time >= olderThan)

\* ------------------------------------------------------------ the topics
\* the keys the registry s.topics can hold in the model: the strings that
\* reach topicsFromIDs as an id and are not rejected there
TopicNames == {"a", "b", "a,b"}

\* len(s.topics)
NumTopics(reg) == Cardinality({n \in DOMAIN reg : reg[n] # 0})

\* Server.topicsFromIDs: the loop over ids, on the registry reg (s.topics)
\* with gen counting the objects made by newTopic; refs are the topic
\* objects resolved so far.  An error returns at once and leaves the entries
\* the loop has already inserted.
RECURSIVE topicsFromIDsNoCeiling(_, _, _, _)
topicsFromIDsNoCeiling(reg, gen, ids, refs) ==
  IF ids = <<>> THEN [err |-> 0, topics |-> reg, gen |-> gen, refs |-> refs]
  ELSE LET id == Head(ids) IN
    IF id \in disallowedTopics
      THEN [err |-> 40010, topics |-> reg, gen |-> gen, refs |-> <<>>]
    ELSE IF reg[id] = 0 /\ NumTopics(reg) > config.TotalTopicLimit
      THEN [err |-> 42904, topics |-> reg, gen |-> gen, refs |-> <<>>]
    ELSE IF reg[id] = 0
      THEN topicsFromIDsNoCeiling([reg EXCEPT ![id] = gen[id] + 1],
                                  [gen EXCEPT ![id] = @ + 1],
                                  Tail(ids), Append(refs, gen[id] + 1))
    ELSE topicsFromIDsNoCeiling(reg, gen, Tail(ids), Append(refs, reg[id]))

RECURSIVE topicsFromIDsLoop(_, _, _, _)
topicsFromIDsLoop(reg, gen, ids, refs) ==
  IF ids = <<>> THEN [err |-> 0, topics |-> reg, gen |-> gen, refs |-> refs]
  ELSE LET id == Head(ids) IN
    IF id \in disallowedTopics
      THEN [err |-> 40010, topics |-> reg, gen |-> gen, refs |-> <<>>]
    ELSE IF reg[id] = 0 /\ NumTopics(reg) >= config.TotalTopicLimit
      THEN [err |-> 42904, topics |-> reg, gen |-> gen, refs |-> <<>>]
    ELSE IF reg[id] = 0
      THEN topicsFromIDsLoop([reg EXCEPT ![id] = gen[id] + 1],
                             [gen EXCEPT ![id] = @ + 1],
                             Tail(ids), Append(refs, gen[id] + 1))
    ELSE topicsFromIDsLoop(reg, gen, Tail(ids), Append(refs, reg[id]))

topicsFromIDs(ids) == topicsFromIDsLoop(topics, topicGen, ids, <<>>)

\* topic.Subscribers() of the object g of topic t
Subscribers(t, g) == Cardinality({s \in subscribers : s.t = t /\ s.g = g})

\* ---------------------------------------------------------- the visitors
IPs == {"ip1", "ip2", "ip3"}

\* newVisitor; admitted, rejected and fresh are history: the requests
\* admitted and rejected by the request limiter, and whether the limiter has
\* not been replenished since the visitor was made
newVisitor(ip) ==
  [ip |-> ip, seen |-> now,
   tokens |-> config.VisitorRequestLimitBurst,
   emails |-> config.VisitorEmailLimitBurst,
   subs |-> 0,
   admitted |-> 0, rejected |-> 0, fresh |-> TRUE]

\* visitor.Stale
Stale(v) == now - v.seen > visitorExpungeAfter

\* visitor.Keepalive
Keepalive(v) == [v EXCEPT !.seen = now]

\* visitor.RequestAllowed: rate.Limiter.Allow takes one token if there is one
RequestAllowedNoTake(v) == [ok |-> v.tokens >= 1, v |-> v]

RequestAllowed(v) ==
  IF v.tokens >= 1
    THEN [ok |-> TRUE, v |-> [v EXCEPT !.tokens = @ - 1]]
    ELSE [ok |-> FALSE, v |-> v]

\* visitor.EmailAllowed
EmailAllowed(v) ==
  IF v.emails >= 1
    THEN [ok |-> TRUE, v |-> [v EXCEPT !.emails = @ - 1]]
    ELSE [ok |-> FALSE, v |-> v]

\* visitor.SubscriptionAllowed: FixedLimiter.Allow(1) on the subscription counter
SubscriptionAllowed(v) ==
  IF v.subs + 1 > config.VisitorSubscriptionLimit
    THEN [ok |-> FALSE, v |-> v]
    ELSE [ok |-> TRUE, v |-> [v EXCEPT !.subs = @ + 1]]

\* visitor.RemoveSubscription: FixedLimiter.Allow(-1)
RemoveSubscription(v) == [v EXCEPT !.subs = @ - 1]

\* the key with X-Forwarded-For trusted whatever the configuration says
visitorKeyAlwaysHeader(host, xff) == IF xff # "" THEN xff ELSE host

\* Server.visitor, lines 1197-1204: the key of the visitor map.  host is the
\* host part of r.RemoteAddr (net.SplitHostPort drops the port), xff the
\* X-Forwarded-For header ("" if none)
visitorKey(host, xff) == IF config.BehindProxy /\ xff # "" THEN xff ELSE host

\* Server.visitor: look the visitor of ip up, or make it
visitor(ip) ==
  IF visitors[ip] = 0
    THEN [visitors |-> [visitors EXCEPT ![ip] = Len(vobjs) + 1],
          vobjs |-> Append(vobjs, newVisitor(ip)),
          vid |-> Len(vobjs) + 1]
    ELSE [visitors |-> visitors,
          vobjs |-> [vobjs EXCEPT ![visitors[ip]] = Keepalive(@)],
          vid |-> visitors[ip]]

\* Server.withRateLimit, up to the call of the handler
withRateLimit(ip) ==
  LET lk == visitor(ip)
      ra == RequestAllowed(lk.vobjs[lk.vid])
      v  == IF ra.ok THEN [ra.v EXCEPT !.admitted = @ + 1]
                     ELSE [ra.v EXCEPT !.rejected = @ + 1]
  IN  [ok |-> ra.ok, vid |-> lk.vid, visitors |-> lk.visitors,
       vobjs |-> [lk.vobjs EXCEPT ![lk.vid] = v]]

\* --------------------------------------------- the limiters of a visitor
\* The limiter pointers of one visitor under visitor.mu.  A limiter is named
\* by the call of resetLimitersNoLock that made it (1: the call in
\* newVisitor; 0: nil); a tier is 0 (no user or no tier) or 1
MaxResets == 3

\* the users SetUser is called with: nil, a user without a tier and a user
\* with a tier
Users == 0..2

\* User.TierID, which works with a nil receiver
TierID(u) == IF u = 2 THEN 1 ELSE 0

\* the tokens of each of the limiters that Allow can take
MaxUsed == 1

Readers == 1..2

LimiterFields == <<"requestLimiter", "messagesLimiter", "emailsLimiter", "bandwidthLimiter">>

\* the limiters each reading method dereferences, in order
Reads ==
  [RequestAllowed |-> <<"requestLimiter">>, MessageAllowed |-> <<"messagesLimiter">>,
   EmailAllowed |-> <<"emailsLimiter">>, BandwidthAllowed |-> <<"bandwidthLimiter">>,
   Stats |-> <<"messagesLimiter", "emailsLimiter">>]

\* the visitor of newVisitor(conf, ..., ip, nil): used counts the tokens
\* taken from each limiter, other holds the two limiters that are nil for a
\* user, subs is the count of the subscription limiter, before the limiters
\* as SetUser found them
NoVlim ==
  [w |-> FALSE, r |-> {}, tier |-> 0, resets |-> 1, next |-> 0,
   lim |-> [f \in {LimiterFields[i] : i \in 1..4} |-> 1],
   rd |-> [x \in Readers |-> [fn |-> "", at |-> 0, seen |-> <<>>, sub |-> FALSE]],
   user |-> 0,
   used |-> [f \in {LimiterFields[i] : i \in 1..4} |-> 0],
   other |-> [accountLimiter |-> 1, authLimiter |-> 1],
   subscriptionLimiter |-> 1, subs |-> 0, before |-> <<>>]

\* v.mu.RLock() that does not wait for the writer
RLockNoWait(x, fn) ==
  /\ vlim.rd[x].fn = ""
  /\ vlim' = [vlim EXCEPT !.r = @ \cup {x},
                          !.rd[x] = [@ EXCEPT !.fn = fn, !.at = 1, !.seen = <<>>]]

\* v.mu.RLock() at the head of the reading method fn, called by x
RLock(x, fn) ==
  /\ vlim.rd[x].fn = ""
  /\ ~vlim.w
  /\ vlim' = [vlim EXCEPT !.r = @ \cup {x},
                          !.rd[x] = [@ EXCEPT !.fn = fn, !.at = 1, !.seen = <<>>]]

\* the method dereferences its next limiter pointer; the methods other than
\* Stats call Allow on the limiter, which takes a token if one is left
ReadLimiter(x) ==
  /\ vlim.rd[x].fn # ""
  /\ vlim.rd[x].at \in 1..Len(Reads[vlim.rd[x].fn])
  /\ LET f == Reads[vlim.rd[x].fn][vlim.rd[x].at]
     IN  vlim' = [vlim EXCEPT !.rd[x].seen = Append(@, vlim.lim[f]),
                              !.rd[x].at = @ + 1,
                              !.used[f] = IF vlim.rd[x].fn # "Stats" /\ @ < MaxUsed
                                            THEN @ + 1 ELSE @]

\* visitor.SubscriptionAllowed, lines 219-223, called by x: under the read
\* lock, which it gets when SetUser does not hold the lock,
\* v.subscriptionLimiter.Allow() adds one unless the limit is reached
SubscriptionAllowedRLocked(x) ==
  /\ vlim.rd[x].fn = ""
  /\ ~vlim.rd[x].sub
  /\ ~vlim.w
  /\ vlim' = IF vlim.subs < config.VisitorSubscriptionLimit
               THEN [vlim EXCEPT !.subs = @ + 1, !.rd[x].sub = TRUE]
               ELSE vlim

\* visitor.RemoveSubscription, lines 269-273, deferred by the handler x that
\* SubscriptionAllowed admitted: v.subscriptionLimiter.AllowN(-1) under the
\* read lock
RemoveSubscriptionRLocked(x) ==
  /\ vlim.rd[x].fn = ""
  /\ vlim.rd[x].sub
  /\ ~vlim.w
  /\ vlim' = [vlim EXCEPT !.subs = @ - 1, !.rd[x].sub = FALSE]

\* the deferred v.mu.RUnlock(): the method returns
RUnlock(x) ==
  /\ vlim.rd[x].fn # ""
  /\ vlim.rd[x].at > Len(Reads[vlim.rd[x].fn])
  /\ vlim' = [vlim EXCEPT !.r = @ \ {x}, !.rd[x].at = 0]

\* the caller of the method starts over
ReaderReturn(x) ==
  /\ vlim.rd[x].fn # ""
  /\ vlim.rd[x].at = 0
  /\ vlim' = [vlim EXCEPT !.rd[x] = [@ EXCEPT !.fn = "", !.at = 0, !.seen = <<>>]]

\* visitor.SetUser(u), lines 332-336: v.mu.Lock(), the comparison of the
\* tiers and v.user = u; next is the step resetLimitersNoLock takes next
\* (0: none, SetUser is not running; 1..4: the assignment of that field;
\* 5: the account and auth limiters; 6: all assigned)
SetUserLock(u) ==
  /\ ~vlim.w
  /\ vlim.r = {}
  /\ vlim.resets < MaxResets
  /\ vlim' = [vlim EXCEPT !.w = TRUE, !.tier = TierID(u), !.user = u,
                          !.next = IF vlim.tier # TierID(u) THEN 1 ELSE 6,
                          !.resets = IF vlim.tier # TierID(u) THEN @ + 1 ELSE @,
                          !.before = [tier |-> vlim.tier, lim |-> vlim.lim,
                                      used |-> vlim.used, other |-> vlim.other]]

\* resetLimitersNoLock that makes a new subscription limiter as well
resetLimitersWithSubscriptions ==
  /\ vlim.w
  /\ vlim.next \in 1..5
  /\ vlim' = IF vlim.next <= 4
               THEN [vlim EXCEPT !.lim[LimiterFields[vlim.next]] = vlim.resets,
                                 !.used[LimiterFields[vlim.next]] = 0,
                                 !.next = @ + 1]
               ELSE [vlim EXCEPT !.other = IF vlim.user = 0
                                   THEN [accountLimiter |-> vlim.resets,
                                         authLimiter |-> vlim.resets]
                                   ELSE [accountLimiter |-> 0, authLimiter |-> 0],
                                 !.subscriptionLimiter = vlim.resets,
                                 !.subs = 0,
                                 !.next = @ + 1]

\* visitor.resetLimitersNoLock, lines 358-368: the next limiter is made and
\* its pointer is assigned (the users of the model have used no message
\* and no e-mail, so every new limiter is full); the account and the auth
\* limiter are made for a visitor without a user and are nil for a user
resetLimitersNoLock ==
  /\ vlim.w
  /\ vlim.next \in 1..5
  /\ vlim' = IF vlim.next <= 4
               THEN [vlim EXCEPT !.lim[LimiterFields[vlim.next]] = vlim.resets,
                                 !.used[LimiterFields[vlim.next]] = 0,
                                 !.next = @ + 1]
               ELSE [vlim EXCEPT !.other = IF vlim.user = 0
                                   THEN [accountLimiter |-> vlim.resets,
                                         authLimiter |-> vlim.resets]
                                   ELSE [accountLimiter |-> 0, authLimiter |-> 0],
                                 !.next = @ + 1]

\* the deferred v.mu.Unlock() of SetUser
SetUserUnlock ==
  /\ vlim.w
  /\ vlim.next = 6
  /\ vlim' = [vlim EXCEPT !.w = FALSE, !.next = 0]

\* the steps of SetUser and of the reading methods leave the broker alone
VisitorStep(A) ==
  /\ A
  /\ UNCHANGED <<now, config, topics, topicGen, subscribers, cache, visitors, vobjs,
                 messages, pubs, conns, wlog, inflight, fanouts, pushed, mailed,
                 lastManager, countErr, lastSender, batch, writing, closeChan,
                 lastFirebase, loopPC, req, ret, srv>>

\* ----------------------------------------------------------- the filters
NoFilter == [message |-> "", title |-> "", priority |-> <<>>, tags |-> <<>>]

\* passesQueryFilter without the default priority
passesQueryFilterNoDefault(msg, f) ==
  IF msg.Event # "message" THEN TRUE
  ELSE IF f.message # "" /\ msg.Message # f.message THEN FALSE
  ELSE IF f.title # "" /\ msg.Title # f.title THEN FALSE
  ELSE IF Len(f.priority) > 0 /\ ~InList(f.priority, msg.Priority) THEN FALSE
  ELSE IF Len(f.tags) > 0 /\ ~InStringListAll(msg.Tags, f.tags) THEN FALSE
  ELSE TRUE

\* passesQueryFilter
passesQueryFilter(msg, f) ==
  IF msg.Event # "message" THEN TRUE
  ELSE IF f.message # "" /\ msg.Message # f.message THEN FALSE
  ELSE IF f.title # "" /\ msg.Title # f.title THEN FALSE
  ELSE LET messagePriority == IF msg.Priority = 0 THEN 3 ELSE msg.Priority IN
    IF Len(f.priority) > 0 /\ ~InList(f.priority, messagePriority) THEN FALSE
    ELSE IF Len(f.tags) > 0 /\ ~InStringListAll(msg.Tags, f.tags) THEN FALSE
    ELSE TRUE

\* the message of publish request m, as the subscribers see it
Message(m) ==
  [Event |-> "message", ID |-> m, Topic |-> pubs[m].topic, Time |-> pubs[m].time,
   Message |-> pubs[m].message, Title |-> pubs[m].title,
   Priority |-> pubs[m].priority, Tags |-> pubs[m].tags]

\* parseSince without the default of a poll request
parseSinceNoPollDefault(since, poll) ==
  IF since.kind = "" THEN [err |-> 0, since |-> sinceNoMessages]
  ELSE IF since.kind = "all" THEN [err |-> 0, since |-> sinceAllMessages]
  ELSE IF since.kind = "unix" THEN [err |-> 0, since |-> since.n]
  ELSE IF since.kind = "dur" THEN [err |-> 0, since |-> now - since.n]
  ELSE [err |-> 40008, since |-> sinceNoMessages]

\* parseSince: since is the parameter, [kind: "", "all", "unix", "dur", "bad"]
parseSince(since, poll) ==
  IF since.kind = ""
    THEN [err |-> 0, since |-> IF poll THEN sinceAllMessages ELSE sinceNoMessages]
  ELSE IF since.kind = "all" THEN [err |-> 0, since |-> sinceAllMessages]
  ELSE IF since.kind = "unix" THEN [err |-> 0, since |-> since.n]
  ELSE IF since.kind = "dur" THEN [err |-> 0, since |-> now - since.n]
  ELSE [err |-> 40008, since |-> sinceNoMessages]

\* sinceTime.IsNone
IsNone(since) == since = sinceNoMessages

\* ------------------------------------------ Run, Stop and the mutex mu
\* The Server before Run: mu is the holder of s.mu ("": free), chan the
\* value of s.closeChan (0: nil, 1: the channel Run made), closed the
\* channels that were closed, loops the channel the background loops select
\* on (0: not started), panic the run-time panic that ended the process
MaxStops == 2

\* the goroutines (handlers and background loops) that call the methods
\* which take s.mu and release it by defer
Callers == {"h1", "h2"}

BrokerOps == {"topicsFromIDs", "visitor", "inc", "updateStatsAndPrune", "sendDelayedMessages"}

NoSrv ==
  [mu |-> "", run |-> "idle", unix |-> "idle", stop |-> "idle", stops |-> 0,
   chan |-> 0, closed |-> {}, loops |-> 0, panic |-> "",
   call |-> [x \in Callers |-> [op |-> "", at |-> ""]]]

\* Server.Run, lines 311-344: s.mu.Lock(), s.closeChan = make(chan bool), the
\* servers are made and the listener goroutines are started
RunLock ==
  /\ srv.panic = ""
  /\ srv.run = "idle"
  /\ srv.mu = ""
  /\ srv' = [srv EXCEPT !.mu = "Run", !.run = "locked", !.chan = 1,
                        !.unix = IF config.ListenUnix THEN "started" ELSE "idle"]

\* Server.Run, lines 345-350: s.mu.Unlock(), the three background loops are
\* started and Run waits for the first error of a listener
RunUnlock ==
  /\ srv.panic = ""
  /\ srv.run = "locked"
  /\ srv' = [srv EXCEPT !.mu = "", !.run = "serving", !.loops = srv.chan]

\* the unix-listener goroutine, line 328: s.mu.Lock()
unixLock ==
  /\ srv.panic = ""
  /\ srv.unix = "started"
  /\ srv.mu = ""
  /\ srv' = [srv EXCEPT !.mu = "unix", !.unix = "locked"]

\* the unix-listener goroutine, lines 329-338: net.Listen succeeds (ok), the
\* mutex is unlocked and the socket is served; or it fails, and the goroutine
\* sends the error to Run and returns
unixListen(ok) ==
  /\ srv.panic = ""
  /\ srv.unix = "locked"
  /\ srv' = IF ok THEN [srv EXCEPT !.mu = "", !.unix = "serving"]
                  ELSE [srv EXCEPT !.unix = "failed"]

\* Server.Run, line 350: return <-errChan, with the error of the unix
\* listener or of a server that Stop closed
RunReturn ==
  /\ srv.panic = ""
  /\ srv.run = "serving"
  /\ srv.unix = "failed" \/ srv.closed # {}
  /\ srv' = [srv EXCEPT !.run = "returned"]

\* Server.Stop, lines 354-355: s.mu.Lock()
StopLock ==
  /\ srv.panic = ""
  /\ srv.stop = "idle"
  /\ srv.stops < MaxStops
  /\ srv.mu = ""
  /\ srv' = [srv EXCEPT !.mu = "Stop", !.stop = "locked"]

\* Server.Stop, lines 356-369: the servers that exist are closed and
\* close(s.closeChan) is called, which panics for a nil and for a closed
\* channel; the deferred s.mu.Unlock() runs in either case
StopClose ==
  /\ srv.panic = ""
  /\ srv.stop = "locked"
  /\ srv' = [srv EXCEPT !.mu = "", !.stop = "idle", !.stops = @ + 1,
                        !.closed = IF srv.chan = 0 THEN @ ELSE @ \cup {srv.chan},
                        !.panic = IF srv.chan = 0 THEN "close of nil channel"
                                  ELSE IF srv.chan \in srv.closed
                                    THEN "close of closed channel" ELSE ""]

\* s.mu.Lock() at the head of topicsFromIDs (1014), visitor (1195), inc
\* (1215), updateStatsAndPrune (1033) and sendDelayedMessages (1159)
brokerCall(x, op) ==
  /\ srv.panic = ""
  /\ srv.call[x].at = ""
  /\ srv' = [srv EXCEPT !.call[x] = [op |-> op, at |-> "waiting"]]

\* s.mu.Lock() returns: the mutex was free
brokerLock(x) ==
  /\ srv.panic = ""
  /\ srv.call[x].at = "waiting"
  /\ srv.mu = ""
  /\ srv' = [srv EXCEPT !.mu = x, !.call[x].at = "locked"]

\* the deferred s.mu.Unlock() of these methods, and the method returns
brokerUnlock(x) ==
  /\ srv.panic = ""
  /\ srv.call[x].at = "locked"
  /\ srv' = [srv EXCEPT !.mu = "", !.call[x] = [op |-> "", at |-> ""]]

\* the steps of Run, of Stop and of the mutex leave the rest alone
ServerStep(A) ==
  /\ A
  /\ UNCHANGED <<now, config, topics, topicGen, subscribers, cache, visitors, vobjs,
                 messages, pubs, conns, wlog, inflight, fanouts, pushed, mailed,
                 lastManager, countErr, lastSender, batch, writing, closeChan,
                 lastFirebase, loopPC, req, ret, vlim>>

\* ------------------------------------------------------------------ Init
NoPub ==
  [pc |-> "idle", err |-> 0, vid |-> 0, topic |-> "", ref |-> 0, time |-> 0,
   delayed |-> FALSE, cachedAs |-> "", cache |-> TRUE, email |-> FALSE,
   firebase |-> TRUE, message |-> "", title |-> "", priority |-> 0, tags |-> <<>>,
   attach |-> "", filename |-> "", limitReached |-> FALSE, valid |-> TRUE, body |-> "",
   size |-> 0, contentLength |-> 0, upload |-> "", remaining |-> 0, stored |-> 0,
   remote |-> "", xff |-> "", asked |-> <<>>]

NoConn ==
  [pc |-> "idle", err |-> 0, vid |-> 0, ids |-> <<>>, refs |-> <<>>,
   since |-> sinceNoMessages, scheduled |-> FALSE, poll |-> FALSE,
   filter |-> NoFilter, idx |-> 0, queue |-> <<>>, timer |-> 0, sinceKind |-> "",
   format |-> "json", listener |-> "http", ctx |-> "live", peer |-> "up"]

NoBatch == [due |-> <<>>, done |-> 0, log |-> <<>>]

\* the state after New(conf) with an empty cache, and Run()
InitWith(conf) ==
  /\ now = 0
  /\ config = conf
  /\ topics = [n \in TopicNames |-> 0]
  /\ topicGen = [n \in TopicNames |-> 0]
  /\ subscribers = {}
  /\ cache = <<>>
  /\ visitors = [ip \in IPs |-> 0]
  /\ vobjs = <<>>
  /\ messages = 0
  /\ pubs = [m \in Msgs |-> NoPub]
  /\ conns = [c \in Conns |-> NoConn]
  /\ wlog = [c \in Conns |-> <<>>]
  /\ inflight = {}
  /\ fanouts = <<>>
  /\ pushed = {}
  /\ mailed = {}
  /\ lastManager = 0
  /\ countErr = {}
  /\ lastSender = 0
  /\ batch = NoBatch
  /\ writing = [c \in Conns |-> {}]
  /\ closeChan = FALSE
  /\ lastFirebase = 0
  /\ loopPC = [manager |-> "running", atSender |-> "running", firebase |-> IF conf.Firebase THEN "running" ELSE "returned"]
  /\ req = [header |-> <<>>, query |-> <<>>]
  /\ ret = <<>>
  /\ vlim = NoVlim
  /\ srv = NoSrv

\* ----------------------------------------------------------------- time
\* a time unit passes; the token buckets of the visitors are replenished
Tick ==
  /\ now < MaxTime
  /\ now' = now + 1
  /\ vobjs' = [i \in DOMAIN vobjs |->
       [vobjs[i] EXCEPT
          !.tokens = Min(config.VisitorRequestLimitBurst, @ + config.VisitorRequestLimitReplenish),
          !.emails = Min(config.VisitorEmailLimitBurst, @ + config.VisitorEmailLimitReplenish),
          !.fresh = @ /\ config.VisitorRequestLimitReplenish = 0]]
  /\ UNCHANGED <<config, topics, topicGen, subscribers, cache, visitors, messages,
                 pubs, conns, wlog, inflight, fanouts, pushed, mailed,
                 lastManager, countErr, lastSender, batch, writing, closeChan, lastFirebase, loopPC, req, ret, vlim, srv>>

\* --------------------------------------------------------------- publish
\* the connections whose open event is written, that are still connected and
\* are subscribed to topic t (history, for the fan-out claims)
OpenOn(t) ==
  {c \in Conns : /\ conns[c].pc \in {"replay", "stream"}
                 /\ ~conns[c].poll
                 /\ InList(conns[c].ids, t)}

\* topic.Publish(m) on the object g of topic t: the subscriber map is copied
\* and one callback invocation per subscriber is started; Publish returns
\* without waiting for them.  fo and inf are the history of fan-outs and the
\* invocations in flight before the call
PublishOn(fo, inf, t, g, m, by) ==
  LET snap == {[c |-> s.c, k |-> s.k] : s \in {x \in subscribers : x.t = t /\ x.g = g}}
  IN  [fanouts  |-> Append(fo, [m |-> m, by |-> by, at |-> now, snap |-> snap,
                                expect |-> OpenOn(t)]),
       inflight |-> inf \cup {[f |-> Len(fo) + 1, m |-> m, c |-> s.c, k |-> s.k] : s \in snap}]

Publish(t, g, m, by) == PublishOn(fanouts, inflight, t, g, m, by)

\* util.ParseFutureTime(delayStr, now): the delay parameter is given as the
\* number of seconds from now that it stands for; a number below zero stands
\* for a string that is no duration and no time in the future
ParseFutureTime(delay) == delay > 0

\* the delay parameter, the cache parameter and the presence of an e-mail
\* recipient as the request gave them
Asked(p) == <<p.delay, p.cache, p.email>>

\* parsePublishParams without the check of the cache parameter of a delayed
\* message
parsePublishParamsDelayNoCache(p, v) ==
  LET ea == IF p.email THEN EmailAllowed(v) ELSE [ok |-> TRUE, v |-> v] IN
    IF p.attach = "invalid" THEN [err |-> 40013, v |-> v, time |-> now]
    ELSE IF ~ea.ok THEN [err |-> 42902, v |-> ea.v, time |-> now]
    ELSE IF ~config.Mailer /\ p.email THEN [err |-> 40001, v |-> ea.v, time |-> now]
    ELSE IF p.priority \notin 0..5 THEN [err |-> 40007, v |-> ea.v, time |-> now]
    ELSE IF p.delay = 0 THEN [err |-> 0, v |-> ea.v, time |-> now]
    ELSE IF p.email THEN [err |-> 40003, v |-> ea.v, time |-> now]
    ELSE IF ~ParseFutureTime(p.delay) THEN [err |-> 40004, v |-> ea.v, time |-> now]
    ELSE IF now + p.delay < now + config.MinDelay THEN [err |-> 40005, v |-> ea.v, time |-> now]
    ELSE IF now + p.delay > now + config.MaxDelay THEN [err |-> 40006, v |-> ea.v, time |-> now]
    ELSE [err |-> 0, v |-> ea.v, time |-> now + p.delay]

\* Server.parsePublishParams for the parameters p and the visitor v
parsePublishParams(p, v) ==
  LET ea == IF p.email THEN EmailAllowed(v) ELSE [ok |-> TRUE, v |-> v] IN
    IF p.attach = "invalid" THEN [err |-> 40013, v |-> v, time |-> now]
    ELSE IF ~ea.ok THEN [err |-> 42902, v |-> ea.v, time |-> now]
    ELSE IF ~config.Mailer /\ p.email THEN [err |-> 40001, v |-> ea.v, time |-> now]
    ELSE IF p.priority \notin 0..5 THEN [err |-> 40007, v |-> ea.v, time |-> now]
    ELSE IF p.delay = 0 THEN [err |-> 0, v |-> ea.v, time |-> now]
    ELSE IF ~p.cache THEN [err |-> 40002, v |-> ea.v, time |-> now]
    ELSE IF p.email THEN [err |-> 40003, v |-> ea.v, time |-> now]
    ELSE IF ~ParseFutureTime(p.delay) THEN [err |-> 40004, v |-> ea.v, time |-> now]
    ELSE IF now + p.delay < now + config.MinDelay THEN [err |-> 40005, v |-> ea.v, time |-> now]
    ELSE IF now + p.delay > now + config.MaxDelay THEN [err |-> 40006, v |-> ea.v, time |-> now]
    ELSE [err |-> 0, v |-> ea.v, time |-> now + p.delay]

\* Server.handleBodyAsMessage: valid says whether the peeked body is UTF-8
handleBodyAsMessage(valid) ==
  [err |-> IF valid THEN 0 ELSE 40011, body |-> "message"]

\* Server.handleBodyAsAttachment, up to the check of the configuration
handleBodyAsAttachment ==
  [err |-> IF config.AttachmentCacheDir THEN 0 ELSE 40014, body |-> "attachment"]

\* handlePublishBody with the first two cases in the other order
handlePublishBodyNameFirst(attach, filename, limitReached, valid) ==
  IF filename # "" THEN handleBodyAsAttachment
  ELSE IF attach # "" THEN handleBodyAsMessage(valid)
  ELSE IF ~limitReached /\ valid THEN handleBodyAsMessage(valid)
  ELSE handleBodyAsAttachment

\* Server.handlePublishBody: attach is the attach URL that passed
\* parsePublishParams ("" if none), filename the filename parameter;
\* m.Attachment.Name is set iff one of the two is given
handlePublishBody(attach, filename, limitReached, valid) ==
  IF attach # "" THEN handleBodyAsMessage(valid)
  ELSE IF attach # "" \/ filename # "" THEN handleBodyAsAttachment
  ELSE IF ~limitReached /\ valid THEN handleBodyAsMessage(valid)
  ELSE handleBodyAsAttachment

\* Server.handlePublish behind withRateLimit, lines 484-503: the topic is
\* resolved, the message is made, the parameters are parsed and the body is
\* read
handlePublishParse(m, ip, p) ==
  /\ pubs[m].pc = "idle"
  /\ LET rl == withRateLimit(ip)
         tf == topicsFromIDs(<<p.topic>>)
         pp == parsePublishParams(p, rl.vobjs[rl.vid])
         hb == handlePublishBody(p.attach, p.filename, p.limitReached, p.valid)
         rejected(code) == [pubs EXCEPT ![m] = [@ EXCEPT !.pc = "done", !.err = code,
                                                          !.vid = rl.vid, !.topic = p.topic,
                                                          !.remote = p.remote, !.xff = p.xff,
                                                          !.asked = Asked(p)]]
         rejectedBody == [pubs EXCEPT ![m] =
                            [@ EXCEPT !.pc = "done", !.err = hb.err, !.vid = rl.vid,
                                      !.topic = p.topic, !.attach = p.attach,
                                      !.filename = p.filename,
                                      !.limitReached = p.limitReached,
                                      !.valid = p.valid, !.body = hb.body,
                                      !.remote = p.remote, !.xff = p.xff,
                                      !.asked = Asked(p)]]
     IN  /\ visitors' = rl.visitors
         /\ IF ~rl.ok
              THEN /\ vobjs' = rl.vobjs
                   /\ pubs' = rejected(42901)
                   /\ UNCHANGED <<topics, topicGen>>
              ELSE /\ topics' = tf.topics
                   /\ topicGen' = tf.gen
                   /\ IF tf.err # 0
                        THEN /\ vobjs' = rl.vobjs
                             /\ pubs' = rejected(tf.err)
                        ELSE /\ vobjs' = [rl.vobjs EXCEPT ![rl.vid] = pp.v]
                             /\ pubs' = IF pp.err # 0 THEN rejected(pp.err)
                                  ELSE IF hb.err # 0 THEN rejectedBody
                                  ELSE [pubs EXCEPT ![m] =
                                    [pc |-> "parsed", err |-> 0, vid |-> rl.vid,
                                     topic |-> p.topic, ref |-> tf.refs[1],
                                     time |-> pp.time, delayed |-> FALSE, cachedAs |-> "",
                                     cache |-> p.cache, email |-> p.email,
                                     firebase |-> p.firebase,
                                     message |-> IF p.message = "" THEN "triggered" ELSE p.message,
                                     title |-> p.title, priority |-> p.priority,
                                     tags |-> p.tags, attach |-> p.attach,
                                     filename |-> p.filename,
                                     limitReached |-> p.limitReached,
                                     valid |-> p.valid, body |-> hb.body,
                                     size |-> p.size, contentLength |-> p.contentLength,
                                     upload |-> "", remaining |-> 0, stored |-> 0,
                                     remote |-> p.remote, xff |-> p.xff,
                                     asked |-> Asked(p)]]
  /\ UNCHANGED <<now, config, subscribers, cache, messages, conns, wlog, inflight,
                 fanouts, pushed, mailed, lastManager, countErr, lastSender, batch, writing, closeChan, lastFirebase, loopPC, req, ret, vlim, srv>>

\* cache.AttachmentsSize(owner): the bytes of the attachments of the cached
\* messages that the visitor owns
RECURSIVE AttachmentsSize(_, _)
AttachmentsSize(c, owner) ==
  IF c = <<>> THEN 0
  ELSE (IF pubs[Head(c).id].body = "attachment" /\ vobjs[pubs[Head(c).id].vid].ip = owner
          THEN pubs[Head(c).id].stored ELSE 0) + AttachmentsSize(Tail(c), owner)

\* the bytes in the file cache that belong to messages of the visitor
StoredBy(owner) ==
  LET F[S \in SUBSET Msgs] ==
        IF S = {} THEN 0
        ELSE LET m == CHOOSE x \in S : TRUE
             IN  (IF pubs[m].vid # 0 /\ vobjs[pubs[m].vid].ip = owner
                    THEN pubs[m].stored ELSE 0) + F[S \ {m}]
  IN  F[Msgs]

\* Server.handleBodyAsAttachment, lines 671-685: the expiry, the remaining
\* quota of the visitor from the cache, and the early check of Content-Length
\* (0: no such header)
handleBodyAsAttachmentSize(m) ==
  /\ pubs[m].pc = "parsed"
  /\ pubs[m].body = "attachment"
  /\ pubs[m].upload = ""
  /\ LET remaining == config.VisitorAttachmentTotalSizeLimit
                        - AttachmentsSize(cache, vobjs[pubs[m].vid].ip)
         cl == pubs[m].contentLength
     IN  pubs' = [pubs EXCEPT ![m] =
           IF pubs[m].time > now + config.AttachmentExpiryDuration
             THEN [@ EXCEPT !.pc = "done", !.err = 40015]
           ELSE IF cl # 0 /\ (cl > remaining \/ cl > config.AttachmentFileSizeLimit)
             THEN [@ EXCEPT !.pc = "done", !.err = 40012]
           ELSE [@ EXCEPT !.upload = "sized", !.remaining = remaining]]
  /\ UNCHANGED <<now, config, topics, topicGen, subscribers, cache, visitors, vobjs,
                 messages, conns, wlog, inflight, fanouts, pushed, mailed, lastManager,
                 countErr, lastSender, batch, writing, closeChan, lastFirebase, loopPC, req, ret, vlim, srv>>

\* Server.handleBodyAsAttachment, lines 700-706: fileCache.Write streams the
\* body to the file of the message under util.NewFixedLimiter(remaining);
\* when the limit is reached the partial file is deleted and the error is
\* answered as 40012
handleBodyAsAttachmentWrite(m) ==
  /\ pubs[m].pc = "parsed"
  /\ pubs[m].upload = "sized"
  /\ pubs' = [pubs EXCEPT ![m] =
       IF pubs[m].size > pubs[m].remaining
         THEN [@ EXCEPT !.pc = "done", !.err = 40012, !.stored = 0]
         ELSE [@ EXCEPT !.upload = "stored", !.stored = pubs[m].size]]
  /\ UNCHANGED <<now, config, topics, topicGen, subscribers, cache, visitors, vobjs,
                 messages, conns, wlog, inflight, fanouts, pushed, mailed, lastManager,
                 countErr, lastSender, batch, writing, closeChan, lastFirebase, loopPC, req, ret, vlim, srv>>

\* Server.handlePublish, lines 504-523: the live fan-out and the hooks,
\* unless the message is delayed
handlePublishFanout(m) ==
  /\ pubs[m].pc = "parsed"
  /\ pubs[m].body = "attachment" => pubs[m].upload = "stored"
  /\ LET delayed == pubs[m].time > now
         pb == Publish(pubs[m].topic, pubs[m].ref, m, "publish")
     IN  /\ pubs' = [pubs EXCEPT ![m] = [@ EXCEPT !.pc = "fanned", !.delayed = delayed]]
         /\ fanouts' = IF delayed THEN fanouts ELSE pb.fanouts
         /\ inflight' = IF delayed THEN inflight ELSE pb.inflight
         /\ pushed' = IF config.Firebase /\ pubs[m].firebase /\ ~delayed
                        THEN pushed \cup {[m |-> m, by |-> "publish"]} ELSE pushed
         /\ mailed' = IF config.Mailer /\ pubs[m].email /\ ~delayed
                        THEN mailed \cup {m} ELSE mailed
  /\ UNCHANGED <<now, config, topics, topicGen, subscribers, cache, visitors, vobjs,
                 messages, conns, wlog, lastManager, countErr, lastSender, batch, writing, closeChan, lastFirebase, loopPC, req, ret, vlim, srv>>

\* Server.handlePublish, lines 524-536: the cache insert, the response and
\* the message counter
handlePublishCache(m) ==
  /\ pubs[m].pc = "fanned"
  /\ cache' = IF pubs[m].cache
                THEN AddMessage(cache, m, pubs[m].topic, pubs[m].time) ELSE cache
  /\ pubs' = [pubs EXCEPT ![m] = [@ EXCEPT !.pc = "done",
                !.cachedAs = IF ~pubs[m].cache \/ createCache(config) = "nopCache" THEN "no"
                             ELSE IF pubs[m].time <= now THEN "published" ELSE "scheduled"]]
  /\ messages' = messages + 1
  /\ UNCHANGED <<now, config, topics, topicGen, subscribers, visitors, vobjs, conns,
                 wlog, inflight, fanouts, pushed, mailed, lastManager, countErr, lastSender, batch, writing, closeChan, lastFirebase, loopPC, req, ret, vlim, srv>>

\* Server.handlePublish, lines 524-528: s.cache.AddMessage returns an error
\* and the handler returns it (an internal server error)
handlePublishCacheFails(m) ==
  /\ pubs[m].pc = "fanned"
  /\ pubs[m].cache
  /\ createCache(config) # "nopCache"
  /\ pubs' = [pubs EXCEPT ![m] = [@ EXCEPT !.pc = "done", !.err = 50001, !.cachedAs = "no"]]
  /\ UNCHANGED <<now, config, topics, topicGen, subscribers, cache, visitors, vobjs,
                 messages, conns, wlog, inflight, fanouts, pushed, mailed, lastManager,
                 countErr, lastSender, batch, writing, closeChan, lastFirebase, loopPC, req, ret, vlim, srv>>

\* ------------------------------------------------------------- subscribe
\* the subscriber function sub of a connection: the event passes the query
\* filter or is dropped; it is encoded and written under the write lock.
\* via is history: "open", "keepalive", "replay" or "live"
sub(c, msg, via) ==
  IF passesQueryFilter(msg, conns[c].filter)
    THEN [wlog EXCEPT ![c] = Append(@, [ev |-> msg.Event, id |-> msg.ID, via |-> via])]
    ELSE wlog

\* wlock.Lock() of line 774 returns: handleSubscribe declares the mutex wlock
\* (line 765) and sub takes it around the write; the sub of handleSubscribeWS
\* (lines 886-894) takes no lock
wlockFree(c) == conns[c].format = "ws" \/ writing[c] = {}

\* w.Write (line 776) and conn.WriteJSON (line 893) return: the client
\* takes what is written to the connection
writable(c) == conns[c].peer # "stalled"

\* newOpenMessage / newKeepaliveMessage
ControlMessage(event) ==
  [Event |-> event, ID |-> 0, Topic |-> "", Time |-> now, Message |-> "",
   Title |-> "", Priority |-> 0, Tags |-> <<>>]

\* Server.handleSubscribe behind withRateLimit, lines 744-785 (json, sse,
\* raw) and Server.handleSubscribeWS, lines 817-895: the subscription
\* limiter, the topics and the parameters
handleSubscribeParse(c, ip, p) ==
  /\ conns[c].pc = "idle"
  /\ LET rl == withRateLimit(ip)
         sa == SubscriptionAllowed(rl.vobjs[rl.vid])
         tf == topicsFromIDs(p.ids)
         ps == parseSince(p.since, p.poll)
         rejected(code) == [conns EXCEPT ![c] = [@ EXCEPT !.pc = "closed", !.err = code,
                                                            !.vid = rl.vid, !.ids = p.ids,
                                                            !.poll = p.poll,
                                                            !.sinceKind = p.since.kind,
                                                            !.format = p.format,
                                                            !.listener = p.listener]]
     IN  /\ visitors' = rl.visitors
         /\ IF ~rl.ok
              THEN /\ vobjs' = rl.vobjs
                   /\ conns' = rejected(42901)
                   /\ UNCHANGED <<topics, topicGen>>
            ELSE IF ~sa.ok
              THEN /\ vobjs' = rl.vobjs
                   /\ conns' = rejected(42903)
                   /\ UNCHANGED <<topics, topicGen>>
            ELSE /\ topics' = tf.topics
                 /\ topicGen' = tf.gen
                 /\ IF tf.err # 0 \/ ps.err # 0
                      \* the deferred RemoveSubscription
                      THEN /\ vobjs' = rl.vobjs
                           /\ conns' = rejected(IF tf.err # 0 THEN tf.err ELSE ps.err)
                      ELSE /\ vobjs' = [rl.vobjs EXCEPT ![rl.vid] = sa.v]
                           /\ conns' = [conns EXCEPT ![c] =
                                [pc |-> IF p.poll THEN "replay" ELSE "parsed",
                                 err |-> 0, vid |-> rl.vid, ids |-> p.ids,
                                 refs |-> tf.refs, since |-> ps.since,
                                 scheduled |-> p.scheduled, poll |-> p.poll,
                                 filter |-> p.filter,
                                 idx |-> IF IsNone(ps.since) THEN Len(p.ids) + 1 ELSE 1,
                                 queue |-> <<>>, timer |-> now,
                                 sinceKind |-> p.since.kind,
                                 format |-> p.format, listener |-> p.listener,
                                 ctx |-> "live", peer |-> "up"]]
  /\ UNCHANGED <<now, config, subscribers, cache, messages, pubs, wlog, inflight,
                 fanouts, pushed, mailed, lastManager, countErr, lastSender, batch, writing, closeChan, lastFirebase, loopPC, req, ret, vlim, srv>>

\* lines 789-792 (899-902): t.Subscribe(sub) on every topic of the request
handleSubscribeRegister(c) ==
  /\ conns[c].pc = "parsed"
  /\ subscribers' = subscribers \cup
       {[t |-> conns[c].ids[k], g |-> conns[c].refs[k], c |-> c, k |-> k] :
          k \in DOMAIN conns[c].ids}
  /\ conns' = [conns EXCEPT ![c].pc = "subscribed"]
  /\ UNCHANGED <<now, config, topics, topicGen, cache, visitors, vobjs, messages,
                 pubs, wlog, inflight, fanouts, pushed, mailed, lastManager, countErr,
                 lastSender, batch, writing, closeChan, lastFirebase, loopPC, req, ret, vlim, srv>>

\* an open event written for a poll request as well
handleSubscribeOpenOnPoll(c) ==
  /\ \/ conns[c].pc = "subscribed"
     \/ conns[c].pc = "replay" /\ conns[c].poll /\ wlog[c] = <<>>
                               /\ conns[c].idx = 1 /\ conns[c].queue = <<>>
  /\ wlockFree(c)
  /\ writable(c)
  /\ wlog' = sub(c, ControlMessage("open"), "open")
  /\ conns' = [conns EXCEPT ![c].pc = "replay", ![c].idx = IF conns[c].poll THEN 0 ELSE @]
  /\ UNCHANGED <<now, config, topics, topicGen, subscribers, cache, visitors, vobjs,
                 messages, pubs, inflight, fanouts, pushed, mailed, lastManager, countErr,
                 lastSender, batch, writing, closeChan, lastFirebase, loopPC, req, ret, vlim, srv>>

\* line 798 (908): the open event
handleSubscribeOpen(c) ==
  /\ conns[c].pc = "subscribed"
  /\ wlockFree(c)
  /\ writable(c)
  /\ wlog' = sub(c, ControlMessage("open"), "open")
  /\ conns' = [conns EXCEPT ![c].pc = "replay"]
  /\ UNCHANGED <<now, config, topics, topicGen, subscribers, cache, visitors, vobjs,
                 messages, pubs, inflight, fanouts, pushed, mailed, lastManager, countErr,
                 lastSender, batch, writing, closeChan, lastFirebase, loopPC, req, ret, vlim, srv>>

\* Server.sendOldMessages, line 960: the cached messages of the next topic
sendOldMessagesRead(c) ==
  /\ conns[c].pc = "replay"
  /\ conns[c].queue = <<>>
  /\ conns[c].idx <= Len(conns[c].ids)
  /\ LET ms == CacheMessages(cache, conns[c].ids[conns[c].idx], conns[c].since,
                             conns[c].scheduled)
     IN  conns' = [conns EXCEPT ![c].queue = [i \in DOMAIN ms |-> ms[i].id],
                                ![c].idx = @ + 1]
  /\ UNCHANGED <<now, config, topics, topicGen, subscribers, cache, visitors, vobjs,
                 messages, pubs, wlog, inflight, fanouts, pushed, mailed,
                 lastManager, countErr, lastSender, batch, writing, closeChan, lastFirebase, loopPC, req, ret, vlim, srv>>

\* Server.sendOldMessages, line 965: sub(m) for the next cached message
sendOldMessagesWrite(c) ==
  /\ conns[c].pc = "replay"
  /\ conns[c].queue # <<>>
  /\ wlockFree(c)
  /\ writable(c)
  /\ wlog' = sub(c, Message(Head(conns[c].queue)), "replay")
  /\ conns' = [conns EXCEPT ![c].queue = Tail(@)]
  /\ UNCHANGED <<now, config, topics, topicGen, subscribers, cache, visitors, vobjs,
                 messages, pubs, inflight, fanouts, pushed, mailed, lastManager, countErr,
                 lastSender, batch, writing, closeChan, lastFirebase, loopPC, req, ret, vlim, srv>>

\* a return that unsubscribes and leaves the subscription counter alone
ReturnKeepsCount(c) ==
  /\ subscribers' = {s \in subscribers : s.c # c}
  /\ vobjs' = vobjs
  /\ conns' = [conns EXCEPT ![c].pc = "closed", ![c].queue = <<>>]

\* the deferred calls of a returning subscribe handler: Unsubscribe on every
\* topic it subscribed to, and RemoveSubscription
Return(c) ==
  /\ subscribers' = {s \in subscribers : s.c # c}
  /\ vobjs' = [vobjs EXCEPT ![conns[c].vid] = RemoveSubscription(@)]
  /\ conns' = [conns EXCEPT ![c].pc = "closed", ![c].queue = <<>>]

\* Server.sendOldMessages has returned: a poll request returns, a streaming
\* one enters the keepalive loop
sendOldMessagesDone(c) ==
  /\ conns[c].pc = "replay"
  /\ conns[c].queue = <<>>
  /\ conns[c].idx > Len(conns[c].ids)
  /\ IF conns[c].poll
       THEN Return(c)
       ELSE /\ conns' = [conns EXCEPT ![c].pc = "stream", ![c].timer = now]
            /\ UNCHANGED <<subscribers, vobjs>>
  /\ UNCHANGED <<now, config, topics, topicGen, cache, visitors, messages, pubs,
                 wlog, inflight, fanouts, pushed, mailed, lastManager, countErr, lastSender,
                 batch, writing, closeChan, lastFirebase, loopPC, req, ret, vlim, srv>>

\* lines 808-813 (878-883): the keepalive timer has fired
handleSubscribeKeepalive(c) ==
  /\ conns[c].pc = "stream"
  /\ now >= conns[c].timer + config.KeepaliveInterval
  /\ wlockFree(c)
  /\ writable(c)
  /\ vobjs' = [vobjs EXCEPT ![conns[c].vid] = Keepalive(@)]
  /\ wlog' = sub(c, ControlMessage("keepalive"), "keepalive")
  /\ conns' = [conns EXCEPT ![c].timer = now]
  /\ UNCHANGED <<now, config, topics, topicGen, subscribers, cache, visitors,
                 messages, pubs, inflight, fanouts, pushed, mailed, lastManager, countErr,
                 lastSender, batch, writing, closeChan, lastFirebase, loopPC, req, ret, vlim, srv>>

\* the client disconnects: the request context is done (line 806), or the
\* next write fails (lines 798-803); the handler returns
handleSubscribeReturn(c) ==
  /\ conns[c].pc \in {"subscribed", "replay", "stream"}
  /\ Return(c)
  /\ UNCHANGED <<now, config, topics, topicGen, cache, visitors, messages, pubs,
                 wlog, inflight, fanouts, pushed, mailed, lastManager, countErr, lastSender,
                 batch, writing, closeChan, lastFirebase, loopPC, req, ret, vlim, srv>>

\* the client closes the connection: the context of the request is done
\* (json, sse, raw), conn.NextReader returns an error (ws, line 861)
clientDisconnect(c) ==
  /\ conns[c].pc \in {"subscribed", "replay", "stream"}
  /\ conns[c].ctx = "live"
  /\ conns' = [conns EXCEPT ![c].ctx = "done"]
  /\ UNCHANGED <<now, config, topics, topicGen, subscribers, cache, visitors, vobjs,
                 messages, pubs, wlog, inflight, fanouts, pushed, mailed, lastManager,
                 countErr, lastSender, batch, writing, closeChan, lastFirebase, loopPC, req, ret, vlim, srv>>

\* the client stays connected and stops answering
clientSilent(c) ==
  /\ conns[c].pc \in {"subscribed", "replay", "stream"}
  /\ conns[c].peer = "up"
  /\ conns' = [conns EXCEPT ![c].peer = "silent"]
  /\ UNCHANGED <<now, config, topics, topicGen, subscribers, cache, visitors, vobjs,
                 messages, pubs, wlog, inflight, fanouts, pushed, mailed, lastManager,
                 countErr, lastSender, batch, writing, closeChan, lastFirebase, loopPC, req, ret, vlim, srv>>

\* handleSubscribeWS, lines 851-865: no PONG has moved the read deadline, it
\* passes and conn.NextReader returns an error, which cancels the group
wsReadDeadline(c) ==
  /\ conns[c].pc \in {"subscribed", "replay", "stream"}
  /\ conns[c].format = "ws"
  /\ conns[c].peer = "silent"
  /\ conns[c].ctx = "live"
  /\ conns' = [conns EXCEPT ![c].ctx = "done"]
  /\ UNCHANGED <<now, config, topics, topicGen, subscribers, cache, visitors, vobjs,
                 messages, pubs, wlog, inflight, fanouts, pushed, mailed, lastManager,
                 countErr, lastSender, batch, writing, closeChan, lastFirebase, loopPC, req, ret, vlim, srv>>

\* a handler whose context is done, or whose connection has failed, returns:
\* case <-r.Context().Done() (line 806), a failed write (798-803, 811), or
\* g.Wait() (line 914)
handleSubscribeCtxDone(c) ==
  /\ conns[c].pc \in {"subscribed", "replay", "stream"}
  /\ conns[c].ctx = "done"
  /\ writing[c] = {}
  /\ Return(c)
  /\ UNCHANGED <<now, config, topics, topicGen, cache, visitors, messages, pubs,
                 wlog, inflight, fanouts, pushed, mailed, lastManager, countErr, lastSender,
                 batch, writing, closeChan, lastFirebase, loopPC, req, ret, vlim, srv>>

\* the client stops reading: every later write to the connection blocks
clientStall(c) ==
  /\ conns[c].pc \in {"subscribed", "replay", "stream"}
  /\ conns[c].peer = "up"
  /\ conns' = [conns EXCEPT ![c].peer = "stalled"]
  /\ UNCHANGED <<now, config, topics, topicGen, subscribers, cache, visitors, vobjs,
                 messages, pubs, wlog, inflight, fanouts, pushed, mailed, lastManager,
                 countErr, lastSender, batch, writing, closeChan, lastFirebase, loopPC,
                 req, ret, vlim, srv>>

\* the callbacks of one fan-out invoked one after the other, in the order of
\* the connections
CallbackInTurn(d) ==
  /\ d \in inflight
  /\ \A e \in inflight : e.f = d.f => e.c >= d.c
  /\ writable(d.c)
  /\ inflight' = inflight \ {d}
  /\ wlog' = IF conns[d.c].pc = "closed" THEN wlog ELSE sub(d.c, Message(d.m), "live")
  /\ UNCHANGED <<now, config, topics, topicGen, subscribers, cache, visitors, vobjs,
                 messages, pubs, conns, fanouts, pushed, mailed, lastManager, countErr,
                 lastSender, batch, writing, closeChan, lastFirebase, loopPC, req, ret, vlim, srv>>

\* one callback invocation started by topic.Publish runs: sub(m) on the
\* connection (lines 766-783); a write to a finished request fails
Callback(d) ==
  /\ d \in inflight
  /\ d \notin writing[d.c]
  /\ wlockFree(d.c)
  /\ writable(d.c)
  /\ inflight' = inflight \ {d}
  /\ wlog' = IF conns[d.c].pc = "closed" THEN wlog ELSE sub(d.c, Message(d.m), "live")
  /\ UNCHANGED <<now, config, topics, topicGen, subscribers, cache, visitors, vobjs,
                 messages, pubs, conns, fanouts, pushed, mailed, lastManager, countErr,
                 lastSender, batch, writing, closeChan, lastFirebase, loopPC, req, ret, vlim, srv>>

\* the same invocation in two steps.  subLock: the event has passed the
\* filter and is encoded, the write lock (json, sse, raw) is taken and the
\* write to the connection begins (lines 767-776, 887-893)
subLock(d) ==
  /\ d \in inflight
  /\ d \notin writing[d.c]
  /\ conns[d.c].pc # "closed"
  /\ passesQueryFilter(Message(d.m), conns[d.c].filter)
  /\ wlockFree(d.c)
  /\ writing' = [writing EXCEPT ![d.c] = @ \cup {d}]
  /\ UNCHANGED <<now, config, topics, topicGen, subscribers, cache, visitors, vobjs,
                 messages, pubs, conns, wlog, inflight, fanouts, pushed, mailed,
                 lastManager, countErr, lastSender, batch, closeChan, lastFirebase, loopPC, req, ret, vlim, srv>>

\* subUnlock: the write ends, the lock is released and sub returns
\* (lines 776-782, 893)
subUnlock(d) ==
  /\ d \in writing[d.c]
  /\ writable(d.c)
  /\ writing' = [writing EXCEPT ![d.c] = @ \ {d}]
  /\ inflight' = inflight \ {d}
  /\ wlog' = IF conns[d.c].pc = "closed" THEN wlog ELSE sub(d.c, Message(d.m), "live")
  /\ UNCHANGED <<now, config, topics, topicGen, subscribers, cache, visitors, vobjs,
                 messages, pubs, conns, fanouts, pushed, mailed, lastManager, countErr,
                 lastSender, batch, closeChan, lastFirebase, loopPC, req, ret, vlim, srv>>

\* ------------------------------------------------------- background loops
\* updateStatsAndPrune dropping every topic without cached messages
updateStatsAndPruneNoSubs(bad) ==
  /\ loopPC.manager = "running"
  /\ now >= lastManager + config.ManagerInterval
  /\ lastManager' = now
  /\ bad \subseteq {t \in TopicNames : topics[t] # 0}
  /\ countErr' = bad
  /\ LET pruned == Prune(cache, now - config.CacheDuration) IN
       /\ visitors' = [ip \in IPs |->
            IF visitors[ip] # 0 /\ Stale(vobjs[visitors[ip]]) THEN 0 ELSE visitors[ip]]
       /\ cache' = pruned
       /\ topics' = [t \in TopicNames |->
            IF topics[t] # 0 /\ t \notin bad /\ MessageCount(pruned, t) = 0
              THEN 0 ELSE topics[t]]
  /\ UNCHANGED <<now, config, topicGen, subscribers, vobjs, messages, pubs, conns,
                 wlog, inflight, fanouts, pushed, mailed, lastSender, batch, writing, closeChan, lastFirebase, loopPC, req, ret, vlim, srv>>

\* Server.updateStatsAndPrune, run by runManager every ManagerInterval; bad
\* are the topics for which cache.MessageCount returns an error: they are
\* logged and skipped (lines 1065-1068)
updateStatsAndPruneWith(bad) ==
  /\ loopPC.manager = "running"
  /\ now >= lastManager + config.ManagerInterval
  /\ lastManager' = now
  /\ bad \subseteq {t \in TopicNames : topics[t] # 0}
  /\ countErr' = bad
  /\ LET pruned == Prune(cache, now - config.CacheDuration) IN
       /\ visitors' = [ip \in IPs |->
            IF visitors[ip] # 0 /\ Stale(vobjs[visitors[ip]]) THEN 0 ELSE visitors[ip]]
       /\ cache' = pruned
       /\ topics' = [t \in TopicNames |->
            IF /\ topics[t] # 0 /\ t \notin bad
               /\ MessageCount(pruned, t) = 0 /\ Subscribers(t, topics[t]) = 0
              THEN 0 ELSE topics[t]]
  /\ UNCHANGED <<now, config, topicGen, subscribers, vobjs, messages, pubs, conns,
                 wlog, inflight, fanouts, pushed, mailed, lastSender, batch, writing, closeChan, lastFirebase, loopPC, req, ret, vlim, srv>>

\* the run in which the cache returns no error
updateStatsAndPrune == updateStatsAndPruneWith({})

\* the loop of sendDelayedMessages with MarkPublished as its first step: a
\* message whose MarkPublished fails is neither fanned out nor pushed
RECURSIVE sendDelayedLoopMarkFirst(_, _, _, _, _)
sendDelayedLoopMarkFirst(due, i, n, fail, acc) ==
  IF i > n THEN acc
  ELSE LET m  == due[i]
           pb == IF topics[m.topic] # 0 /\ i # fail
                   THEN PublishOn(acc.fanouts, acc.inflight, m.topic, topics[m.topic],
                                  m.id, "sender")
                   ELSE [fanouts |-> acc.fanouts, inflight |-> acc.inflight]
       IN  sendDelayedLoopMarkFirst(due, i + 1, n, fail,
             [fanouts |-> pb.fanouts, inflight |-> pb.inflight,
              pushed |-> IF config.Firebase /\ i # fail
                           THEN acc.pushed \cup {[m |-> m.id, by |-> "sender"]}
                           ELSE acc.pushed,
              cache |-> IF i = fail THEN acc.cache ELSE MarkPublished(acc.cache, m.id),
              log |-> acc.log \o <<<<"MarkPublished", m.id>>>>
                              \o (IF topics[m.topic] # 0 /\ i # fail
                                    THEN <<<<"Publish", m.id>>>> ELSE <<>>)
                              \o (IF config.Firebase /\ i # fail
                                    THEN <<<<"firebase", m.id>>>> ELSE <<>>)])

\* Server.sendDelayedMessages, lines 1165-1180, for the due messages
\* due[i..n]: fan-out if the topic is in the registry, then the push hook,
\* then MarkPublished, which fails for the fail-th message.  log lists the
\* calls in the order in which the loop makes them
RECURSIVE sendDelayedLoop(_, _, _, _, _)
sendDelayedLoop(due, i, n, fail, acc) ==
  IF i > n THEN acc
  ELSE LET m  == due[i]
           pb == IF topics[m.topic] # 0
                   THEN PublishOn(acc.fanouts, acc.inflight, m.topic, topics[m.topic],
                                  m.id, "sender")
                   ELSE [fanouts |-> acc.fanouts, inflight |-> acc.inflight]
       IN  sendDelayedLoop(due, i + 1, n, fail,
             [fanouts |-> pb.fanouts, inflight |-> pb.inflight,
              pushed |-> IF config.Firebase
                           THEN acc.pushed \cup {[m |-> m.id, by |-> "sender"]}
                           ELSE acc.pushed,
              cache |-> IF i = fail THEN acc.cache ELSE MarkPublished(acc.cache, m.id),
              log |-> acc.log \o (IF topics[m.topic] # 0 THEN <<<<"Publish", m.id>>>> ELSE <<>>)
                              \o (IF config.Firebase THEN <<<<"firebase", m.id>>>> ELSE <<>>)
                              \o <<<<"MarkPublished", m.id>>>>])

\* Server.sendDelayedMessages, run by runAtSender every AtSenderInterval.
\* fail = 0: MarkPublished succeeds for every message; fail = i: it returns
\* an error for the i-th due message, and sendDelayedMessages returns it
sendDelayedMessages(fail) ==
  /\ loopPC.atSender = "running"
  /\ now >= lastSender + config.AtSenderInterval
  /\ lastSender' = now
  /\ LET due == MessagesDue(cache)
         n   == IF fail = 0 THEN Len(due) ELSE fail
         r   == sendDelayedLoop(due, 1, n, fail,
                  [fanouts |-> fanouts, inflight |-> inflight, pushed |-> pushed,
                   cache |-> cache, log |-> <<>>])
     IN  /\ fail \in 0..Len(due)
         /\ fanouts' = r.fanouts
         /\ inflight' = r.inflight
         /\ pushed' = r.pushed
         /\ cache' = r.cache
         /\ batch' = [due |-> [i \in DOMAIN due |-> due[i].id], done |-> n, log |-> r.log]
  /\ UNCHANGED <<now, config, topics, topicGen, subscribers, visitors, vobjs, messages,
                 pubs, conns, wlog, mailed, lastManager, countErr, writing, closeChan, lastFirebase, loopPC, req, ret, vlim, srv>>

\* Server.runFirebaseKeepliver, lines 1148-1151: the timer has fired and a
\* keepalive message for the control topic is handed to the push hook
runFirebaseKeepliver ==
  /\ loopPC.firebase = "running"
  /\ now >= lastFirebase + config.FirebaseKeepaliveInterval
  /\ lastFirebase' = now
  /\ pushed' = pushed \cup {[m |-> 0, by |-> "keepalive"]}
  /\ UNCHANGED <<now, config, topics, topicGen, subscribers, cache, visitors, vobjs,
                 messages, pubs, conns, wlog, inflight, fanouts, mailed, lastManager,
                 countErr, lastSender, batch, writing, closeChan, loopPC, req, ret, vlim, srv>>

\* the connections that http.Server.Close closes: the active connections of
\* s.httpServer and s.httpsServer that were not hijacked.  The server of the
\* unix socket is a local variable of Run (line 337) that Stop cannot reach,
\* and the connection of a WebSocket was hijacked by upgrader.Upgrade
closedByStop(c) ==
  /\ conns[c].pc \notin {"idle", "closed"}
  /\ conns[c].listener \in {"http", "https"}
  /\ conns[c].format # "ws"

\* Server.Stop, lines 353-370, on a running server: s.httpServer.Close(),
\* s.httpsServer.Close(), s.unixListener.Close() and close(s.closeChan)
Stop ==
  /\ ~closeChan
  /\ closeChan' = TRUE
  /\ conns' = [c \in Conns |->
       IF closedByStop(c) THEN [conns[c] EXCEPT !.ctx = "done"] ELSE conns[c]]
  /\ UNCHANGED <<now, config, topics, topicGen, subscribers, cache, visitors, vobjs,
                 messages, pubs, wlog, inflight, fanouts, pushed, mailed,
                 lastManager, countErr, lastSender, batch, writing, lastFirebase,
                 loopPC, req, ret, vlim, srv>>

\* a loop that never takes the case <-s.closeChan of its select
loopIgnoresClose(l) ==
  /\ closeChan
  /\ loopPC[l] = "running"
  /\ UNCHANGED vars

\* the case <-s.closeChan of the select of the loop l (lines 1123-1124,
\* 1136-1137, 1152-1153): the loop returns
loopReturn(l) ==
  /\ closeChan
  /\ loopPC[l] = "running"
  /\ loopPC' = [loopPC EXCEPT ![l] = "returned"]
  /\ UNCHANGED <<now, config, topics, topicGen, subscribers, cache, visitors, vobjs,
                 messages, pubs, conns, wlog, inflight, fanouts, pushed, mailed,
                 lastManager, countErr, lastSender, batch, writing, closeChan,
                 lastFirebase, req, ret, vlim, srv>>

runManagerReturn == loopReturn("manager")

runAtSenderReturn == loopReturn("atSender")

runFirebaseKeepliverReturn == loopReturn("firebase")

\* a request with the header values and the query values of the aliases of
\* one parameter is read with readParam
readParamCall(header, query) ==
  /\ req.header = <<>>
  /\ req' = [header |-> header, query |-> query]
  /\ ret' = readParam(header, query)
  /\ UNCHANGED <<now, config, topics, topicGen, subscribers, cache, visitors, vobjs,
                 messages, pubs, conns, wlog, inflight, fanouts, pushed, mailed,
                 lastManager, countErr, lastSender, batch, writing, closeChan,
                 lastFirebase, loopPC, vlim, srv>>

\* ------------------------------------------------- the lock Server.mu
\* what Server.updateStatsAndPrune does between s.mu.Lock() (line 1033) and
\* the deferred Unlock, in the current state
updateStatsAndPruneLocked ==
  {"visitors.delete", "cache.Prune", "topics.delete"}
    \cup (IF config.AttachmentCacheDir
            THEN {"cache.AttachmentsExpired", "fileCache.Remove"} ELSE {})
    \cup (IF \E t \in TopicNames : topics[t] # 0 THEN {"cache.MessageCount"} ELSE {})

\* what Server.sendDelayedMessages does between s.mu.Lock() (line 1159) and
\* the deferred Unlock, in the current state
sendDelayedMessagesLocked ==
  LET due == MessagesDue(cache) IN
    {"cache.MessagesDue"}
      \cup (IF \E i \in DOMAIN due : topics[due[i].topic] # 0 THEN {"topic.Publish"} ELSE {})
      \cup (IF due # <<>> /\ config.Firebase THEN {"firebase"} ELSE {})
      \cup (IF due # <<>> THEN {"cache.MarkPublished"} ELSE {})

\* what the handlers do under s.mu: Server.visitor and Server.topicsFromIDs
\* look an entry up or insert it, Server.inc adds one to a counter
visitorLocked == {"visitors.lookup-or-insert"}

topicsFromIDsLocked == {"topics.lookup-or-insert"}

incLocked == {"counter"}

\* --------------------------------------------------------------- routing
\* A request path is /<id>(,<id>)* or /<id>(,<id>)*/<suffix>; ids are its
\* comma separated names, each matching [-_A-Za-z0-9]{1,64}.  These are the
\* names of the model that match topicRegex
TopicIDs == {"a", "b", "docs"}

\* the path segment between the first and the second "/": the ids and the
\* commas between them (strings.Split(path, "/")[1] in topicFromPath)
RECURSIVE PathSegment(_)
PathSegment(ids) ==
  IF Len(ids) = 1 THEN ids[1] ELSE ids[1] \o "," \o PathSegment(Tail(ids))

\* Server.handleInternal: the handler the method and the path are routed to
handleInternal(method, ids, suffix) ==
  IF method = "GET" /\ ids = <<"static">> /\ suffix # "" THEN "handleStatic"
  ELSE IF method = "GET" /\ ids = <<"docs">> THEN "handleDocs"
  ELSE IF method = "GET" /\ ids = <<"file">> /\ suffix # "" /\ config.AttachmentCacheDir
    THEN "handleFile"
  ELSE IF method = "GET" /\ Len(ids) = 1 /\ suffix = "" THEN "handleTopic"
  ELSE IF method \in {"PUT", "POST"} /\ Len(ids) = 1 /\ suffix = "" THEN "handlePublish"
  ELSE IF method = "GET" /\ suffix \in {"publish", "send", "trigger"} THEN "handlePublish"
  ELSE IF method = "GET" /\ suffix \in {"json", "sse", "raw", "ws"} THEN "handleSubscribe"
  ELSE "errHTTPNotFound"

\* a publish request by its method and path: topicFromPath resolves the
\* whole path segment as one topic id
PublishRequest(m, ip, method, ids, suffix, p) ==
  /\ handleInternal(method, ids, suffix) = "handlePublish"
  /\ handlePublishParse(m, ip, [p EXCEPT !.topic = PathSegment(ids)])

\* a publish request from the address host:port with an X-Forwarded-For
\* header
PublishFrom(m, host, port, xff, p) ==
  handlePublishParse(m, visitorKey(host, xff), [p EXCEPT !.remote = host, !.xff = xff])

\* a subscribe request by its path: the path segment is split at the commas
SubscribeRequest(c, ip, ids, suffix, p) ==
  /\ handleInternal("GET", ids, suffix) = "handleSubscribe"
  /\ handleSubscribeParse(c, ip, [p EXCEPT !.ids = ids, !.format = suffix])

\* ------------------------------------------------------- specifications
DefaultConfig ==
  [VisitorSubscriptionLimit |-> 2, VisitorRequestLimitBurst |-> 4,
   VisitorRequestLimitReplenish |-> 1, VisitorEmailLimitBurst |-> 1,
   VisitorEmailLimitReplenish |-> 0, TotalTopicLimit |-> 2,
   MinDelay |-> 1, MaxDelay |-> 2, CacheDuration |-> 3,
   KeepaliveInterval |-> 1, ManagerInterval |-> 1, AtSenderInterval |-> 1,
   Firebase |-> TRUE, Mailer |-> FALSE, AttachmentCacheDir |-> FALSE,
   CacheFile |-> "", FirebaseKeepaliveInterval |-> 1,
   VisitorAttachmentTotalSizeLimit |-> 2, AttachmentFileSizeLimit |-> 2,
   AttachmentExpiryDuration |-> 3, BehindProxy |-> FALSE, ListenUnix |-> FALSE]

\* a publish request for a topic with a delay (0: none)
PubParams(topic, delay) ==
  [topic |-> topic, delay |-> delay, cache |-> TRUE, email |-> FALSE,
   firebase |-> TRUE, message |-> "", title |-> "", priority |-> 0, tags |-> <<>>,
   attach |-> "", filename |-> "", limitReached |-> FALSE, valid |-> TRUE,
   size |-> 1, contentLength |-> 0, remote |-> "", xff |-> ""]

\* a subscribe request
SubParams(ids, since, poll, scheduled) ==
  [ids |-> ids, since |-> since, poll |-> poll, scheduled |-> scheduled,
   filter |-> NoFilter, format |-> "json", listener |-> "http"]

SinceAbsent == [kind |-> "", n |-> 0]
SinceAll == [kind |-> "all", n |-> 0]

\* the steps of sendOldMessages for the subscribe requests C that replay
ReplaySteps(C) ==
  \/ \E c \in C : sendOldMessagesRead(c)
  \/ \E c \in C : sendOldMessagesWrite(c)

\* the other steps of the subscribe requests C after their first one
SubscribeSteps(C) ==
  \/ \E c \in C : handleSubscribeRegister(c)
  \/ \E c \in C : handleSubscribeOpen(c)
  \/ \E c \in C : sendOldMessagesDone(c)
  \/ \E c \in C : handleSubscribeReturn(c)
  \/ \E d \in inflight : Callback(d)

\* the steps of the publish requests M after their first one
PublishSteps(M) ==
  \/ \E m \in M : handlePublishFanout(m)
  \/ \E m \in M : handlePublishCache(m)

\* the upload steps of the publish requests M whose body is an attachment
UploadSteps(M) ==
  \/ \E m \in M : handleBodyAsAttachmentSize(m)
  \/ \E m \in M : handleBodyAsAttachmentWrite(m)

\* Spec: one publish request, immediate or delayed, and one streaming
\* subscriber, with the clock, the manager and the scheduled-delivery loop
Init == InitWith(DefaultConfig)

Next ==
  \/ Tick
  \/ \E d \in {0, 1} : handlePublishParse(1, "ip1", PubParams("a", d))
  \/ PublishSteps({1})
  \/ \E ids \in {<<"a">>, <<"a", "a">>}, since \in {SinceAbsent, SinceAll}, sc \in BOOLEAN :
       handleSubscribeParse(1, "ip1", SubParams(ids, since, FALSE, sc))
  \/ SubscribeSteps({1})
  \/ ReplaySteps({1})
  \/ handleSubscribeKeepalive(1)
  \/ updateStatsAndPrune
  \/ sendDelayedMessages(0)

Spec == Init /\ [][Next]_vars

\* SpecOrder: two immediate publish requests to one topic and one subscriber
\* that asks for all cached messages, streaming or polling
NextOrder ==
  \/ \E m \in {1, 2} : handlePublishParse(m, "ip1", PubParams("a", 0))
  \/ PublishSteps({1, 2})
  \/ \E poll \in BOOLEAN :
       handleSubscribeParse(1, "ip1", SubParams(<<"a">>, SinceAll, poll, FALSE))
  \/ SubscribeSteps({1})
  \/ ReplaySteps({1})

SpecOrder == Init /\ [][NextOrder]_vars

\* SpecSender: two delayed publish requests, one streaming subscriber, and a
\* cache whose MarkPublished can fail
NextSender ==
  \/ Tick
  \/ \E m \in {1, 2} : handlePublishParse(m, "ip1", PubParams("a", 1))
  \/ PublishSteps({1, 2})
  \/ handleSubscribeParse(1, "ip1", SubParams(<<"a">>, SinceAbsent, FALSE, FALSE))
  \/ SubscribeSteps({1})
  \/ \E fail \in 0..2 : sendDelayedMessages(fail)

SpecSender == Init /\ [][NextSender]_vars

\* SpecVisitor: the requests of one visitor with a subscription limit of 1
\* and a request burst of 2, with the clock and the manager
VisitorConfig ==
  [DefaultConfig EXCEPT !.VisitorSubscriptionLimit = 1, !.VisitorRequestLimitBurst = 2]

InitVisitor == InitWith(VisitorConfig)

NextVisitor ==
  \/ Tick
  \/ handlePublishParse(1, "ip1", PubParams("a", 0))
  \/ PublishSteps({1})
  \/ \E c \in Conns :
       handleSubscribeParse(c, "ip1", SubParams(<<"a">>, SinceAbsent, FALSE, FALSE))
  \/ SubscribeSteps(Conns)
  \/ \E c \in Conns : handleSubscribeKeepalive(c)
  \/ updateStatsAndPrune

SpecVisitor == InitVisitor /\ [][NextVisitor]_vars

\* SpecTopics: publish requests on both publish routes and subscribe
\* requests, with valid and invalid parameters, the clock and the manager
PublishPaths ==
  {[method |-> "PUT", ids |-> <<"a">>, suffix |-> ""],
   [method |-> "POST", ids |-> <<"docs">>, suffix |-> ""],
   [method |-> "GET", ids |-> <<"b">>, suffix |-> "publish"],
   [method |-> "GET", ids |-> <<"a", "b">>, suffix |-> "trigger"]}

NextTopics ==
  \/ Tick
  \/ \E path \in PublishPaths, pr \in {0, 9} :
       PublishRequest(1, "ip1", path.method, path.ids, path.suffix,
                      [PubParams("", 0) EXCEPT !.priority = pr])
  \/ PublishSteps({1})
  \/ \E ids \in {<<"a">>, <<"a", "b">>, <<"b", "docs">>} :
       SubscribeRequest(1, "ip1", ids, "json", SubParams(<<>>, SinceAbsent, FALSE, FALSE))
  \/ SubscribeSteps({1})
  \/ updateStatsAndPrune

SpecTopics == Init /\ [][NextTopics]_vars

\* SpecEvict: one publish request, cached or not, and one streaming
\* subscriber on a topic, a cache that keeps messages for one time unit, and
\* a manager whose MessageCount can fail
EvictConfig == [DefaultConfig EXCEPT !.CacheDuration = 1]

InitEvict == InitWith(EvictConfig)

NextEvict ==
  \/ Tick
  \/ \E cch \in BOOLEAN :
       handlePublishParse(1, "ip1", [PubParams("a", 0) EXCEPT !.cache = cch])
  \/ PublishSteps({1})
  \/ handleSubscribeParse(1, "ip1", SubParams(<<"a">>, SinceAbsent, FALSE, FALSE))
  \/ SubscribeSteps({1})
  \/ \E bad \in SUBSET {"a"} : updateStatsAndPruneWith(bad)

SpecEvict == InitEvict /\ [][NextEvict]_vars

\* SpecSince: two publish requests at any times, and after them one
\* subscriber, polling or streaming, with since=<unix timestamp>, whose
\* client stays connected
SinceUnix(u) == [kind |-> "unix", n |-> u]

NextSince ==
  \/ Tick
  \/ \E m \in Msgs : handlePublishParse(m, "ip1", PubParams("a", 0))
  \/ PublishSteps(Msgs)
  \/ /\ \A m \in Msgs : pubs[m].pc = "done"
     /\ \E u \in 0..MaxTime, poll \in BOOLEAN :
          handleSubscribeParse(1, "ip1", SubParams(<<"a">>, SinceUnix(u), poll, FALSE))
  \/ handleSubscribeRegister(1)
  \/ handleSubscribeOpen(1)
  \/ ReplaySteps({1})
  \/ sendOldMessagesDone(1)

SpecSince == Init /\ [][NextSince]_vars

\* SpecDefaults: two publish requests at any times, and after them one
\* subscriber, polling or streaming, without since, with since=all or with
\* a since that cannot be parsed, whose client stays connected
SinceBad == [kind |-> "bad", n |-> 0]

NextDefaults ==
  \/ Tick
  \/ \E m \in Msgs : handlePublishParse(m, "ip1", PubParams("a", 0))
  \/ PublishSteps(Msgs)
  \/ /\ \A m \in Msgs : pubs[m].pc = "done"
     /\ \E since \in {SinceAbsent, SinceAll, SinceBad}, poll \in BOOLEAN :
          handleSubscribeParse(1, "ip1", SubParams(<<"a">>, since, poll, FALSE))
  \/ handleSubscribeRegister(1)
  \/ handleSubscribeOpen(1)
  \/ ReplaySteps({1})
  \/ sendOldMessagesDone(1)

SpecDefaults == Init /\ [][NextDefaults]_vars

\* SpecCache: one publish request with or without caching and one
\* streaming subscriber, on a broker with or without a message cache whose
\* AddMessage can fail
InitCache ==
  \E d \in {0, 3} : InitWith([DefaultConfig EXCEPT !.CacheDuration = d])

NextCache ==
  \/ Tick
  \/ \E cch \in BOOLEAN :
       handlePublishParse(1, "ip1", [PubParams("a", 0) EXCEPT !.cache = cch])
  \/ PublishSteps({1})
  \/ handlePublishCacheFails(1)
  \/ handleSubscribeParse(1, "ip1", SubParams(<<"a">>, SinceAbsent, FALSE, FALSE))
  \/ SubscribeSteps({1})

SpecCache == InitCache /\ [][NextCache]_vars

\* SpecBody: two publish requests with every combination of attach URL,
\* filename, body encoding and body length, on a broker with or without an
\* attachment cache
InitBody ==
  \E dir \in BOOLEAN : InitWith([DefaultConfig EXCEPT !.AttachmentCacheDir = dir])

NextBody ==
  \/ \E m \in Msgs, attach \in {"", "http://x/f.jpg", "invalid"}, filename \in {"", "f.txt"},
        limitReached \in BOOLEAN, valid \in BOOLEAN :
       handlePublishParse(m, "ip1",
         [PubParams("a", 0) EXCEPT !.attach = attach, !.filename = filename,
                                   !.limitReached = limitReached, !.valid = valid])
  \/ PublishSteps(Msgs)
  \/ UploadSteps(Msgs)

SpecBody == InitBody /\ [][NextBody]_vars

\* SpecFilter: one publish request with any message, title, priority and
\* tags and one streaming subscriber with any filters, with the clock
NextFilter ==
  \/ Tick
  \/ \E message \in {"", "hi"}, title \in {"", "T"}, priority \in {0, 3, 5},
        tags \in {<<>>, <<"x">>, <<"y", "x">>} :
       handlePublishParse(1, "ip1",
         [PubParams("a", 0) EXCEPT !.message = message, !.title = title,
                                   !.priority = priority, !.tags = tags])
  \/ PublishSteps({1})
  \/ \E message \in {"", "hi"}, title \in {"", "T"}, priority \in {<<>>, <<3>>, <<4, 5>>},
        tags \in {<<>>, <<"x">>, <<"x", "y">>} :
       handleSubscribeParse(1, "ip1",
         [SubParams(<<"a">>, SinceAbsent, FALSE, FALSE) EXCEPT
            !.filter = [message |-> message, title |-> title,
                        priority |-> priority, tags |-> tags]])
  \/ SubscribeSteps({1})
  \/ handleSubscribeKeepalive(1)

SpecFilter == Init /\ [][NextFilter]_vars

\* SpecWriter: one streaming subscriber, over json or over a WebSocket, and
\* two publish requests to its topic, with the callbacks in two steps
NextWriter ==
  \/ \E suffix \in {"json", "ws"} :
       SubscribeRequest(1, "ip1", <<"a">>, suffix, SubParams(<<>>, SinceAbsent, FALSE, FALSE))
  \/ \E c \in {1} : handleSubscribeRegister(c)
  \/ \E c \in {1} : handleSubscribeOpen(c)
  \/ \E c \in {1} : sendOldMessagesDone(c)
  \/ \E c \in {1} : handleSubscribeReturn(c)
  \/ \E m \in Msgs : handlePublishParse(m, "ip1", PubParams("a", 0))
  \/ PublishSteps(Msgs)
  \/ \E d \in inflight : subLock(d)
  \/ \E d \in inflight : subUnlock(d)

SpecWriter == Init /\ [][NextWriter]_vars

\* SpecStop: the three background loops with a delayed publish request, the
\* clock and Stop.  A select with the case <-s.closeChan ready takes a ready
\* case, and the timer of a new iteration is not ready yet: each return is
\* weakly fair
NextStop ==
  \/ Tick
  \/ handlePublishParse(1, "ip1", PubParams("a", 1))
  \/ PublishSteps({1})
  \/ updateStatsAndPrune
  \/ sendDelayedMessages(0)
  \/ runFirebaseKeepliver
  \/ Stop
  \/ runManagerReturn
  \/ runAtSenderReturn
  \/ runFirebaseKeepliverReturn

SpecStop ==
  /\ Init /\ [][NextStop]_vars
  /\ WF_vars(runManagerReturn) /\ WF_vars(runAtSenderReturn)
  /\ WF_vars(runFirebaseKeepliverReturn)

\* SpecTerm: streaming subscribers over the TCP or the unix-socket listener,
\* as json or as WebSocket, with the clock, clients that disconnect or fall
\* silent, and Stop.  A handler whose context is done returns, and the read
\* deadline of a silent WebSocket passes: both are weakly fair
Listeners == {"http", "unix"}

NextTerm ==
  \/ Tick
  \/ \E c \in Conns, l \in Listeners, suffix \in {"json", "ws"} :
       /\ ~closeChan
       /\ SubscribeRequest(c, "ip1", <<"a">>, suffix,
            [SubParams(<<>>, SinceAbsent, FALSE, FALSE) EXCEPT !.listener = l])
  \/ \E c \in Conns : handleSubscribeRegister(c)
  \/ \E c \in Conns : handleSubscribeOpen(c)
  \/ \E c \in Conns : sendOldMessagesDone(c)
  \/ \E c \in Conns : handleSubscribeKeepalive(c)
  \/ \E c \in Conns : clientDisconnect(c)
  \/ \E c \in Conns : clientSilent(c)
  \/ \E c \in Conns : wsReadDeadline(c)
  \/ \E c \in Conns : handleSubscribeCtxDone(c)
  \/ Stop

SpecTerm ==
  /\ Init /\ [][NextTerm]_vars
  /\ \A c \in Conns : WF_vars(handleSubscribeCtxDone(c)) /\ WF_vars(wsReadDeadline(c))

\* SpecQuota: the uploads of one visitor with an attachment quota of 2
\* bytes: bodies of 1..3 bytes sent as files, with or without a
\* Content-Length header, cached or not
QuotaConfig == [DefaultConfig EXCEPT !.AttachmentCacheDir = TRUE]

InitQuota == InitWith(QuotaConfig)

NextQuota ==
  \/ \E m \in Msgs, size \in 1..3, withLength \in BOOLEAN, c \in BOOLEAN :
       handlePublishParse(m, "ip1",
         [PubParams("a", 0) EXCEPT !.filename = "f.bin", !.size = size, !.cache = c,
                                   !.contentLength = IF withLength THEN size ELSE 0])
  \/ UploadSteps(Msgs)
  \/ PublishSteps(Msgs)

SpecQuota == InitQuota /\ [][NextQuota]_vars

\* SpecParam: readParam for a parameter with two aliases.  The header values
\* reach the handler without surrounding white space (net/http trims them
\* when it reads the request); the query values are as the client sent them
Trimmed == {v \in Values : TrimSpace(v) = v}

NextParam ==
  \E h1, h2 \in Trimmed, q1, q2 \in Values : readParamCall(<<h1, h2>>, <<q1, q2>>)

SpecParam == Init /\ [][NextParam]_vars

\* SpecIdentity: publish requests from two addresses with any
\* X-Forwarded-For header, behind a proxy or not, with the clock and the
\* manager
InitIdentity ==
  \E bp \in BOOLEAN : InitWith([DefaultConfig EXCEPT !.BehindProxy = bp])

NextIdentity ==
  \/ Tick
  \/ \E m \in Msgs, host \in {"ip1", "ip2"}, port \in 1..2, xff \in {"", "ip2", "ip3"} :
       PublishFrom(m, host, port, xff, PubParams("a", 0))
  \/ PublishSteps(Msgs)
  \/ updateStatsAndPrune

SpecIdentity == InitIdentity /\ [][NextIdentity]_vars

\* SpecSlow: two streaming subscribers of one topic, the first with a client
\* that may stop reading, and two publish requests.  The handler of a publish
\* request runs on, and a callback whose write can proceed runs: weakly fair
NextSlow ==
  \/ \E c \in Conns :
       handleSubscribeParse(c, "ip1", SubParams(<<"a">>, SinceAbsent, FALSE, FALSE))
  \/ \E c \in Conns : handleSubscribeRegister(c)
  \/ \E c \in Conns : handleSubscribeOpen(c)
  \/ \E c \in Conns : sendOldMessagesDone(c)
  \/ clientStall(1)
  \/ \E m \in Msgs : handlePublishParse(m, "ip1", PubParams("a", 0))
  \/ PublishSteps(Msgs)
  \/ \E d \in inflight : Callback(d)

SpecSlow ==
  /\ Init /\ [][NextSlow]_vars
  /\ \A m \in Msgs : WF_vars(handlePublishFanout(m)) /\ WF_vars(handlePublishCache(m))
  /\ \A c \in Conns : WF_vars(\E d \in inflight : d.c = c /\ Callback(d))

\* SpecLimiters: two callers of the reading methods of one visitor and
\* SetUser with a changed or an unchanged tier, in every interleaving
NextLimiters ==
  \/ \E x \in Readers, fn \in DOMAIN Reads : VisitorStep(RLock(x, fn))
  \/ \E x \in Readers : VisitorStep(ReadLimiter(x))
  \/ \E x \in Readers : VisitorStep(RUnlock(x))
  \/ \E x \in Readers : VisitorStep(ReaderReturn(x))
  \/ \E u \in Users : VisitorStep(SetUserLock(u))
  \/ VisitorStep(resetLimitersNoLock)
  \/ VisitorStep(SetUserUnlock)

SpecLimiters == Init /\ [][NextLimiters]_vars

\* SpecCleanup: the subscribe requests of one visitor with a subscription
\* limit of 1 on every exit path: rejected by the limit, by a disallowed
\* topic or by a bad since, a poll, and a stream that ends at any point, the
\* first on two topics and the second with a replay; with one publish
\* request, the clock and the manager
NextCleanup ==
  \/ Tick
  \/ handlePublishParse(1, "ip1", PubParams("a", 0))
  \/ PublishSteps({1})
  \/ \E ids \in {<<"a", "b">>, <<"docs">>} :
       SubscribeRequest(1, "ip1", ids, "json", SubParams(<<>>, SinceAbsent, FALSE, FALSE))
  \/ \E since \in {SinceAll, SinceBad}, poll \in BOOLEAN :
       SubscribeRequest(2, "ip1", <<"a">>, "json", SubParams(<<>>, since, poll, FALSE))
  \/ SubscribeSteps(Conns)
  \/ ReplaySteps(Conns)
  \/ updateStatsAndPrune

SpecCleanup == InitVisitor /\ [][NextCleanup]_vars

\* SpecPoll: a poll request for all cached messages next to a streaming
\* subscriber of the same topic and visitor, with one publish request
NextPoll ==
  \/ handlePublishParse(1, "ip1", PubParams("a", 0))
  \/ PublishSteps({1})
  \/ handleSubscribeParse(1, "ip1", SubParams(<<"a">>, SinceAll, TRUE, FALSE))
  \/ handleSubscribeParse(2, "ip1", SubParams(<<"a">>, SinceAbsent, FALSE, FALSE))
  \/ SubscribeSteps(Conns)
  \/ ReplaySteps(Conns)

SpecPoll == Init /\ [][NextPoll]_vars

\* SpecDelay: publish requests with every kind of delay parameter, with and
\* without the cache parameter set to "no" and an e-mail recipient, on a
\* broker with a mailer and delays of 2 to 3 seconds allowed
DelayConfig == [DefaultConfig EXCEPT !.Mailer = TRUE, !.MinDelay = 2, !.MaxDelay = 3]

InitDelay == InitWith(DelayConfig)

NextDelay ==
  \/ Tick
  \/ \E m \in Msgs, d \in -1..4, c \in BOOLEAN, e \in BOOLEAN :
       handlePublishParse(m, "ip1", [PubParams("a", d) EXCEPT !.cache = c, !.email = e])
  \/ PublishSteps(Msgs)

SpecDelay == InitDelay /\ [][NextDelay]_vars

\* SpecSchedule: a delayed publish request, one streaming subscriber, the
\* manager, which may evict the topic between the topic resolution of a
\* publish request and its cache insert, and the scheduled-delivery loop with
\* a MarkPublished that can fail
NextSchedule ==
  \/ Tick
  \/ handlePublishParse(1, "ip1", PubParams("a", 1))
  \/ PublishSteps({1})
  \/ handleSubscribeParse(1, "ip1", SubParams(<<"a">>, SinceAbsent, FALSE, FALSE))
  \/ SubscribeSteps({1})
  \/ \E fail \in 0..1 : sendDelayedMessages(fail)
  \/ updateStatsAndPrune

SpecSchedule == Init /\ [][NextSchedule]_vars

\* SpecSetUser: two subscribe handlers of one visitor that take and give
\* back a subscription and call RequestAllowed and Stats, and SetUser with
\* nil, with a user without a tier and with a user with a tier, in every
\* interleaving
NextSetUser ==
  \/ \E x \in Readers, fn \in {"RequestAllowed", "Stats"} : VisitorStep(RLock(x, fn))
  \/ \E x \in Readers : VisitorStep(ReadLimiter(x))
  \/ \E x \in Readers : VisitorStep(RUnlock(x))
  \/ \E x \in Readers : VisitorStep(ReaderReturn(x))
  \/ \E x \in Readers : VisitorStep(SubscriptionAllowedRLocked(x))
  \/ \E x \in Readers : VisitorStep(RemoveSubscriptionRLocked(x))
  \/ \E u \in Users : VisitorStep(SetUserLock(u))
  \/ VisitorStep(resetLimitersNoLock)
  \/ VisitorStep(SetUserUnlock)

SpecSetUser == Init /\ [][NextSetUser]_vars

\* SpecLifecycle: Run on a server with a unix socket whose net.Listen
\* succeeds or fails, Stop called up to MaxStops times at any point, before
\* Run as well, and the methods that take the mutex
LifecycleConfig == [DefaultConfig EXCEPT !.ListenUnix = TRUE]

InitLifecycle == InitWith(LifecycleConfig)

NextLifecycle ==
  \/ ServerStep(RunLock)
  \/ ServerStep(RunUnlock)
  \/ ServerStep(unixLock)
  \/ \E ok \in BOOLEAN : ServerStep(unixListen(ok))
  \/ ServerStep(RunReturn)
  \/ ServerStep(StopLock)
  \/ ServerStep(StopClose)
  \/ \E x \in Callers, op \in BrokerOps : ServerStep(brokerCall(x, op))
  \/ \E x \in Callers : ServerStep(brokerLock(x))
  \/ \E x \in Callers : ServerStep(brokerUnlock(x))

SpecLifecycle == InitLifecycle /\ [][NextLifecycle]_vars

\* ---------------------------------------------------------------- claims
\* how often message m was written to connection c
Written(c, m) ==
  Cardinality({i \in DOMAIN wlog[c] : wlog[c][i].ev = "message" /\ wlog[c][i].id = m})

\* the first call of topic.Publish for message m (0: none)
FirstFanout(m) ==
  IF \E f \in DOMAIN fanouts : fanouts[f].m = m
    THEN CHOOSE f \in DOMAIN fanouts :
           fanouts[f].m = m /\ \A g \in DOMAIN fanouts : fanouts[g].m = m => f <= g
    ELSE 0

\* C1: at most once per connection: no message id is written more than once
\* to one subscriber connection, for every since, scheduled and topic list.
C1_AtMostOncePerConnection ==
  \A c \in Conns : \A m \in Msgs : Written(c, m) <= 1

\* C3: fan-out completeness: once the callbacks of a non-delayed publish
\* have run, every connection that was subscribed to the topic when the
\* message was published (open event written, not disconnected) and whose
\* filter matches has been written the message exactly once.
C3_FanoutCompleteness ==
  \A f \in DOMAIN fanouts :
    (fanouts[f].by = "publish" /\ ~\E d \in inflight : d.f = f) =>
      \A c \in fanouts[f].expect :
        (conns[c].pc \in {"replay", "stream"}
           /\ passesQueryFilter(Message(fanouts[f].m), conns[c].filter))
        => Written(c, fanouts[f].m) = 1

\* C4: replay then live: on a streaming connection the first event written
\* is the open event, and no live message is written before the open event
\* or before a replayed message.
C4_ReplayThenLive ==
  \A c \in Conns : ~conns[c].poll =>
    /\ wlog[c] # <<>> => wlog[c][1].ev = "open"
    /\ \A i, j \in DOMAIN wlog[c] :
         (i < j /\ wlog[c][i].via = "live") => wlog[c][j].via \notin {"open", "replay"}

\* C6: a publish whose delivery time is in the future (line 504) causes no
\* live fan-out, no push-hook call and no e-mail at publish time, is cached
\* with published = false, and is written to no subscriber that did not ask
\* for scheduled messages before its delivery time.
C6_DelayedPublish ==
  \A m \in Msgs : pubs[m].delayed =>
    /\ ~\E f \in DOMAIN fanouts : fanouts[f].m = m /\ fanouts[f].by = "publish"
    /\ [m |-> m, by |-> "publish"] \notin pushed
    /\ m \notin mailed
    /\ pubs[m].pc = "done" => pubs[m].cachedAs = "scheduled"
    /\ \A c \in Conns : (~conns[c].scheduled /\ now < pubs[m].time) => Written(c, m) = 0

\* C2: per-topic ordering: if Publish(m1) on a topic returned before
\* Publish(m2) on it was called, a subscriber of both observes m1 before m2.
C2_PerTopicOrdering ==
  \A f1, f2 \in DOMAIN fanouts :
    (f1 < f2 /\ fanouts[f1].m # fanouts[f2].m
       /\ pubs[fanouts[f1].m].topic = pubs[fanouts[f2].m].topic) =>
      \A c \in Conns :
        ((\E x \in fanouts[f1].snap : x.c = c) /\ (\E x \in fanouts[f2].snap : x.c = c)) =>
          ~\E i, j \in DOMAIN wlog[c] :
             /\ i < j
             /\ wlog[c][i] = [ev |-> "message", id |-> fanouts[f2].m, via |-> "live"]
             /\ wlog[c][j] = [ev |-> "message", id |-> fanouts[f1].m, via |-> "live"]

\* C5: replay ordering: a subscriber with since=all is replayed two cached
\* messages of one topic in the order in which they were fanned out.
C5_ReplayOrdering ==
  \A c \in Conns : conns[c].since = sinceAllMessages =>
    \A i, j \in DOMAIN wlog[c] :
      (/\ i < j
       /\ wlog[c][i].via = "replay" /\ wlog[c][j].via = "replay"
       /\ pubs[wlog[c][i].id].topic = pubs[wlog[c][j].id].topic
       /\ FirstFanout(wlog[c][i].id) # 0 /\ FirstFanout(wlog[c][j].id) # 0)
      => FirstFanout(wlog[c][i].id) <= FirstFanout(wlog[c][j].id)

\* C7: scheduled delivery exactly once: the scheduled-delivery loop fans a
\* scheduled message out in at most one tick; after a tick has attempted the
\* fan-out no later tick fans it out again, also when MarkPublished returned
\* an error.
C7_ScheduledExactlyOnce ==
  \A m \in Msgs :
    Cardinality({f \in DOMAIN fanouts : fanouts[f].m = m /\ fanouts[f].by = "sender"}) <= 1

\* C8: batch isolation: a tick of the scheduled-delivery loop handles every
\* message that was due at the tick, whatever errors it meets.
C8_BatchIsolation == batch.done = Len(batch.due)

\* the open subscribe connections of the visitor identity ip: the requests
\* that have registered their callbacks and have not returned
OpenSubscriptions(ip) ==
  {c \in Conns : /\ conns[c].pc \in {"subscribed", "replay", "stream"}
                 /\ vobjs[conns[c].vid].ip = ip}

\* C9: subscription limit: a visitor identity never has more open subscribe
\* connections than visitor-subscription-limit.
C9_SubscriptionLimit ==
  \A ip \in IPs : Cardinality(OpenSubscriptions(ip)) <= config.VisitorSubscriptionLimit

\* C10: request rate limit: a visitor never holds more than burst tokens;
\* while its bucket has not been replenished, the requests admitted are the
\* tokens taken, a request is rejected only after burst requests were
\* admitted, and a rejected request (42901) has run no handler.
C10_RequestRateLimit ==
  /\ \A i \in DOMAIN vobjs :
       /\ vobjs[i].tokens <= config.VisitorRequestLimitBurst
       /\ vobjs[i].fresh =>
            /\ vobjs[i].admitted = config.VisitorRequestLimitBurst - vobjs[i].tokens
            /\ vobjs[i].rejected > 0 => vobjs[i].admitted = config.VisitorRequestLimitBurst
  /\ \A c \in Conns : conns[c].err = 42901 =>
       /\ conns[c].pc = "closed" /\ wlog[c] = <<>>
       /\ ~\E s \in subscribers : s.c = c
  /\ \A m \in Msgs : pubs[m].err = 42901 =>
       /\ pubs[m].pc = "done"
       /\ ~\E f \in DOMAIN fanouts : fanouts[f].m = m
       /\ ~\E i \in DOMAIN cache : cache[i].id = m

\* a visitor whose bucket was not replenished was admitted burst requests
\* and then rejected
C10_Witness ==
  \E i \in DOMAIN vobjs :
    /\ vobjs[i].fresh
    /\ vobjs[i].admitted = config.VisitorRequestLimitBurst
    /\ vobjs[i].rejected > 0
    /\ \E m \in Msgs : pubs[m].err = 42901 /\ pubs[m].vid = i

\* C11: topic-name invariant: every key of the topic registry is a single
\* valid topic name (no comma) and none of the reserved names, whatever
\* route created it.
C11_TopicNameInvariant ==
  \A k \in DOMAIN topics : topics[k] # 0 => k \in TopicIDs \ disallowedTopics

\* C12: topic ceiling: the registry never holds more than total-topic-limit
\* topics; a request is rejected with 42904 only when the registry is full,
\* and a request that got past the topic resolution has its topic in the
\* registry.
C12_TopicCeiling ==
  [][/\ NumTopics(topics') <= config.TotalTopicLimit
     /\ \A m \in Msgs : (pubs[m].pc = "idle" /\ pubs'[m].pc # "idle") =>
          /\ pubs'[m].err = 42904 =>
               /\ NumTopics(topics) >= config.TotalTopicLimit
               /\ topics[pubs'[m].topic] = 0
          /\ pubs'[m].err \notin {42901, 40010, 42904} => topics'[pubs'[m].topic] # 0
     /\ \A c \in Conns : (conns[c].pc = "idle" /\ conns'[c].pc # "idle") =>
          /\ conns'[c].err = 42904 => NumTopics(topics') >= config.TotalTopicLimit
          /\ conns'[c].err \notin {42901, 42903, 40010, 42904} =>
               \A i \in DOMAIN conns'[c].ids : topics'[conns'[c].ids[i]] # 0]_vars

\* the registry is full and a publish request was rejected with 42904
C12_Witness ==
  /\ NumTopics(topics) = config.TotalTopicLimit
  /\ \E m \in Msgs : pubs[m].err = 42904

\* C13: topic eviction: a manager tick removes a topic from the registry
\* if and only if the topic then has zero subscribers and zero cached
\* messages, and nothing else removes a topic.
C13_TopicEviction ==
  [][\A t \in TopicNames : topics[t] # 0 =>
       IF lastManager' # lastManager
         THEN topics'[t] = 0 <=>
                (Subscribers(t, topics[t]) = 0 /\ MessageCount(cache', t) = 0)
         ELSE topics'[t] # 0]_vars

\* C13 as amended: a manager tick removes a topic if and only if the topic
\* then has zero subscribers and the cache reports, without an error, zero
\* cached messages for it; nothing else removes a topic.
C13_TopicEvictionUnlessCountFails ==
  [][\A t \in TopicNames : topics[t] # 0 =>
       IF lastManager' # lastManager
         THEN topics'[t] = 0 <=>
                /\ Subscribers(t, topics[t]) = 0
                /\ t \notin countErr'
                /\ MessageCount(cache', t) = 0
         ELSE topics'[t] # 0]_vars

\* a topic whose message was cached and pruned and whose subscriber has left
\* is gone from the registry
C13_Witness ==
  /\ topicGen["a"] > 0 /\ topics["a"] = 0
  /\ pubs[1].cachedAs = "published" /\ cache = <<>>
  /\ conns[1].pc = "closed" /\ conns[1].err = 0

\* the ids of the messages replayed to connection c
Replayed(c) == {wlog[c][i].id : i \in {j \in DOMAIN wlog[c] : wlog[c][j].via = "replay"}}

\* sendOldMessages has returned for connection c
ReplayComplete(c) ==
  /\ conns[c].err = 0
  /\ conns[c].pc = "stream" \/ (conns[c].poll /\ conns[c].pc = "closed")

\* C14: since cursor exactness: a request with since=u, u a unix timestamp,
\* polling or streaming, is replayed exactly the cached published messages
\* of its topics whose time is >= u.
C14_SinceCursorExactness ==
  \A c \in Conns : ReplayComplete(c) =>
    Replayed(c) = {cache[i].id : i \in {j \in DOMAIN cache :
                      /\ InList(conns[c].ids, cache[j].topic)
                      /\ cache[j].published
                      /\ cache[j].time >= conns[c].since}}

\* the cached published messages of the topics of connection c
AllCached(c) ==
  {cache[i].id : i \in {j \in DOMAIN cache :
     InList(conns[c].ids, cache[j].topic) /\ cache[j].published}}

\* C15: since defaults: without since a poll request is replayed all cached
\* messages and a streaming request none; since=all replays all cached
\* messages in both modes; a since that is neither all, an integer nor a
\* duration is rejected with 40008, no subscriber registered, nothing written.
C15_SinceDefaults ==
  \A c \in Conns :
    /\ (ReplayComplete(c) /\ conns[c].sinceKind = "all") => Replayed(c) = AllCached(c)
    /\ (ReplayComplete(c) /\ conns[c].sinceKind = "") =>
         Replayed(c) = IF conns[c].poll THEN AllCached(c) ELSE {}
    /\ (conns[c].pc # "idle" /\ conns[c].sinceKind = "bad") =>
         /\ conns[c].pc = "closed" /\ conns[c].err # 0
         /\ conns[c].err \notin {42901, 42903, 40010, 42904} => conns[c].err = 40008
         /\ wlog[c] = <<>>
         /\ ~\E x \in subscribers : x.c = c

\* a poll request without since has been replayed a cached message
C15_Witness ==
  \E c \in Conns :
    /\ conns[c].sinceKind = "" /\ conns[c].poll
    /\ ReplayComplete(c) /\ Replayed(c) # {}

\* C16: cache/fan-out agreement: when a publish request finishes, a message
\* that was fanned out live is in the message cache if and only if caching
\* was requested and the cache is not the no-op cache.
C16_CacheFanoutAgreement ==
  [][\A m \in Msgs :
       (/\ pubs[m].pc = "fanned" /\ pubs'[m].pc = "done"
        /\ \E f \in DOMAIN fanouts : fanouts[f].m = m /\ fanouts[f].by = "publish")
       => ((\E i \in DOMAIN cache' : cache'[i].id = m)
             <=> (pubs[m].cache /\ createCache(config) # "nopCache"))]_vars

\* the codes of the validation errors of a publish request: e-mail
\* disabled, delay errors, invalid priority, disallowed topic, invalid
\* attach URL, attachments disallowed
ValidationErrors ==
  {40001, 40002, 40003, 40004, 40005, 40006, 40007, 40010, 40013, 40014}

\* C17: validation before side effects: a publish request rejected with a
\* validation error has created no topic, taken no e-mail token and fanned
\* out, cached, pushed and mailed nothing.
C17_ValidationBeforeSideEffects ==
  [][\A m \in Msgs :
       (pubs[m].pc = "idle" /\ pubs'[m].pc = "done" /\ pubs'[m].err \in ValidationErrors)
       => /\ topics' = topics
          /\ \A i \in DOMAIN vobjs' :
               vobjs'[i].emails = IF i \in DOMAIN vobjs THEN vobjs[i].emails
                                  ELSE config.VisitorEmailLimitBurst
          /\ fanouts' = fanouts /\ cache' = cache
          /\ pushed' = pushed /\ mailed' = mailed]_vars

\* C18: body disposition: the body is treated as the message text iff an
\* attach URL was given, or else no filename was given and the peeked body
\* is valid UTF-8 and did not reach the limit; otherwise it is treated as an
\* attachment; a body that is not UTF-8 and is chosen as the message text is
\* rejected with 40011.
C18_BodyDisposition ==
  \A m \in Msgs : pubs[m].body # "" =>
    /\ pubs[m].body = "message" <=>
         \/ pubs[m].attach # ""
         \/ pubs[m].filename = "" /\ pubs[m].valid /\ ~pubs[m].limitReached
    /\ pubs[m].body # "message" => pubs[m].body = "attachment"
    /\ (pubs[m].body = "message" /\ ~pubs[m].valid) => pubs[m].err = 40011
    /\ (pubs[m].body = "message" /\ pubs[m].valid) => pubs[m].err = 0

\* a request with an attach URL, a filename and a body that is not UTF-8 was
\* rejected with 40011, and one with a filename only stored an attachment
C18_Witness ==
  /\ \E m \in Msgs : /\ pubs[m].attach # "" /\ pubs[m].filename # ""
                     /\ ~pubs[m].valid /\ pubs[m].err = 40011
  /\ \E m \in Msgs : /\ pubs[m].attach = "" /\ pubs[m].filename # ""
                     /\ pubs[m].body = "attachment" /\ pubs[m].err = 0

\* the message of publish request m satisfies every active filter of f
FilterAccepts(m, f) ==
  /\ f.message # "" => pubs[m].message = f.message
  /\ f.title # "" => pubs[m].title = f.title
  /\ f.priority # <<>> =>
       \E i \in DOMAIN f.priority :
         f.priority[i] = IF pubs[m].priority = 0 THEN 3 ELSE pubs[m].priority
  /\ \A i \in DOMAIN f.tags : \E j \in DOMAIN pubs[m].tags : pubs[m].tags[j] = f.tags[i]

\* C19: subscriber filters: a message event is written to a connection iff
\* it satisfies every active filter (message, title, priority with 0 taken
\* as 3, all filter tags); open and keepalive events are never filtered out.
C19_SubscriberFilters ==
  [][\A c \in Conns :
       /\ \A i \in DOMAIN wlog'[c] : wlog'[c][i].ev = "message" =>
            FilterAccepts(wlog'[c][i].id, conns'[c].filter)
       /\ \A d \in inflight \ inflight' :
            (d.c = c /\ conns[c].pc # "closed" /\ FilterAccepts(d.m, conns[c].filter))
            => wlog'[c] = Append(wlog[c], [ev |-> "message", id |-> d.m, via |-> "live"])
       /\ (conns[c].pc = "subscribed" /\ conns'[c].pc = "replay")
            => wlog'[c] = Append(wlog[c], [ev |-> "open", id |-> 0, via |-> "open"])
       /\ (conns[c].pc = "stream" /\ conns'[c].pc = "stream" /\ conns'[c] # conns[c])
            => wlog'[c] = Append(wlog[c], [ev |-> "keepalive", id |-> 0, via |-> "keepalive"])
    ]_vars

\* a subscriber with a priority filter 3 and a tag filter x, y was written
\* a message without priority with the tags y, x, after its open event and a
\* keepalive event
C19_Witness ==
  \E c \in Conns :
    /\ conns[c].filter.priority = <<3>> /\ conns[c].filter.tags = <<"x", "y">>
    /\ \E i \in DOMAIN wlog[c] :
         /\ wlog[c][i].ev = "message"
         /\ pubs[wlog[c][i].id].priority = 0
    /\ \E i \in DOMAIN wlog[c] : wlog[c][i].ev = "keepalive"

\* what the step from the current state to the next does while it holds
\* Server.mu
LockedOps ==
  (IF lastManager' # lastManager THEN updateStatsAndPruneLocked ELSE {})
    \cup (IF lastSender' # lastSender THEN sendDelayedMessagesLocked ELSE {})
    \cup (IF (visitors' # visitors /\ lastManager' = lastManager) \/ Len(vobjs') > Len(vobjs)
            THEN visitorLocked ELSE {})
    \cup (IF topics' # topics /\ lastManager' = lastManager THEN topicsFromIDsLocked ELSE {})
    \cup (IF messages' # messages THEN incLocked ELSE {})

\* C20: broker-lock discipline: while Server.mu is held no push or mail hook
\* is invoked and no cache or file I/O is performed, in the handlers, in the
\* manager loop and in the scheduled-delivery loop.
C20_BrokerLockDiscipline ==
  [][LockedOps \cap {"cache.MessagesDue", "cache.MarkPublished", "cache.Prune",
                     "cache.MessageCount", "cache.AttachmentsExpired",
                     "fileCache.Remove", "firebase", "mailer.Send"} = {}]_vars

\* C21: single writer per connection: no two writes to the same subscriber
\* connection are in progress at the same time, whatever its format.
C21_SingleWriter == \A c \in Conns : Cardinality(writing[c]) <= 1

AllReturned == \A l \in DOMAIN loopPC : loopPC[l] = "returned"

\* C22: shutdown of the background loops: after Stop every loop (manager,
\* scheduled delivery, push keepalive) eventually returns, and a loop that
\* has observed the shutdown signal starts no further tick.
C22_LoopShutdown ==
  /\ closeChan ~> AllReturned
  /\ [][/\ loopPC.manager = "returned" => lastManager' = lastManager
        /\ loopPC.atSender = "returned" => lastSender' = lastSender /\ batch' = batch
        /\ loopPC.firebase = "returned" => lastFirebase' = lastFirebase]_vars

C22_Witness ==
  /\ closeChan /\ AllReturned
  /\ lastManager > 0 /\ lastSender > 0 /\ lastFirebase > 0
  /\ now > lastManager

\* C23: subscriber termination: a streaming subscriber handler eventually
\* returns once its client has disconnected, once the broker was stopped, and
\* (WebSocket) once the client no longer answers the PING frames.
C23_SubscriberTermination ==
  \A c \in Conns :
    (/\ conns[c].pc = "stream"
     /\ \/ conns[c].ctx = "done"
        \/ closeChan
        \/ conns[c].format = "ws" /\ conns[c].peer = "silent")
      ~> (conns[c].pc = "closed")

\* C24: attachment quota: the attachments stored for a visitor never add up
\* to more than visitor-attachment-total-size-limit, whatever the order and
\* the interleaving of the uploads, and an upload rejected with 40012 leaves
\* no file behind.
C24_AttachmentQuota ==
  /\ \A ip \in IPs : StoredBy(ip) <= config.VisitorAttachmentTotalSizeLimit
  /\ \A m \in Msgs : pubs[m].err = 40012 => pubs[m].stored = 0

\* the first of the values that is not empty after trimming, trimmed
RECURSIVE FirstNonBlank(_)
FirstNonBlank(vs) ==
  IF vs = <<>> THEN <<>>
  ELSE IF TrimSpace(Head(vs)) # <<>> THEN TrimSpace(Head(vs))
  ELSE FirstNonBlank(Tail(vs))

\* C25: parameter alias resolution: readParam returns the first value that
\* is non-empty after trimming, header aliases first and query aliases next,
\* and the empty string only if every alias is empty after trimming.
C25_AliasResolution == ret = FirstNonBlank(req.header \o req.query)

\* C26: visitor identity: the visitor charged for a request is the one of
\* the client address, or of X-Forwarded-For when behind-proxy is on and the
\* header is not empty; with behind-proxy off a request changes the visitor
\* registry and the limiters exactly as the same request without the header
\* does, so request sequences that differ in that header only lead to the
\* same registries and limiter states.
C26_VisitorIdentity ==
  [][\A m \in Msgs :
       pubs[m].pc = "idle" /\ pubs'[m].pc # "idle" =>
         LET r   == pubs'[m]
             key == IF config.BehindProxy /\ r.xff # "" THEN r.xff ELSE r.remote
             bare == withRateLimit(r.remote)
         IN  /\ visitors'[key] = r.vid
             /\ vobjs'[r.vid].ip = key
             /\ vobjs'[r.vid].admitted + vobjs'[r.vid].rejected
                  = (IF visitors[key] = 0 THEN 0
                     ELSE vobjs[visitors[key]].admitted + vobjs[visitors[key]].rejected) + 1
             /\ ~config.BehindProxy =>
                  visitors' = bare.visitors /\ vobjs' = bare.vobjs]_vars

C26_Witness ==
  /\ ~config.BehindProxy
  /\ \E m, n \in Msgs :
       /\ pubs[m].pc # "idle" /\ pubs[n].pc # "idle"
       /\ pubs[m].remote = pubs[n].remote /\ pubs[m].xff = "" /\ pubs[n].xff = "ip3"
       /\ pubs[m].vid = pubs[n].vid
  /\ visitors["ip3"] = 0

InFlight(i) ==
  {c \in Conns : conns[c].pc \in {"parsed", "subscribed", "replay", "stream"}
                  /\ conns[c].vid = i}

\* the callbacks of the request c that are in the subscriber maps
Registered(c) == {s \in subscribers : s.c = c}

\* C30: subscribe cleanup: on every exit path of a subscribe handler the
\* callbacks it registered are removed from exactly the topics they were
\* registered on, and the subscription counter of its visitor is decremented
\* once iff it was incremented: the counter of a visitor equals the number of
\* its subscribe handlers in flight and is never negative.
C30_SubscribeCleanup ==
  /\ \A i \in DOMAIN vobjs :
       vobjs[i].subs = Cardinality(InFlight(i)) /\ vobjs[i].subs >= 0
  /\ \A c \in Conns :
       Registered(c) =
         IF conns[c].pc \in {"subscribed", "replay", "stream"} /\ ~conns[c].poll
           THEN {[t |-> conns[c].ids[k], g |-> conns[c].refs[k], c |-> c, k |-> k] :
                   k \in DOMAIN conns[c].ids}
           ELSE {}

C30_Witness ==
  /\ conns[1].pc = "closed" /\ conns[1].err = 0 /\ ~conns[1].poll
  /\ Len(wlog[1]) >= 1 /\ Len(conns[1].ids) = 2
  /\ conns[2].pc = "stream" /\ conns[2].vid = conns[1].vid
  /\ vobjs[conns[2].vid].subs = 1
  /\ Cardinality(subscribers) = 1

\* C31: a poll leaves the fan-out state unchanged: a subscribe request with
\* poll=1 writes only replayed cached messages, never has a callback on a
\* topic, none of its steps changes a subscriber set, and its return takes
\* the subscription counter of its visitor back to what it was before the
\* request.
C31_PollFrame ==
  /\ [](\A c \in Conns : conns[c].poll =>
          /\ Registered(c) = {}
          /\ \A i \in DOMAIN wlog[c] : wlog[c][i].via = "replay" /\ wlog[c][i].ev = "message")
  /\ [][\A c \in Conns :
          conns'[c] # conns[c] /\ conns'[c].poll =>
            /\ subscribers' = subscribers
            /\ conns[c].pc = "idle" /\ conns'[c].pc = "replay" =>
                 vobjs'[conns'[c].vid].subs = 1 +
                   (IF conns'[c].vid \in DOMAIN vobjs THEN vobjs[conns'[c].vid].subs ELSE 0)
            /\ conns[c].pc = "replay" /\ conns'[c].pc = "closed" =>
                 vobjs'[conns[c].vid].subs = vobjs[conns[c].vid].subs - 1]_vars

C31_Witness ==
  /\ conns[1].pc = "closed" /\ conns[1].poll /\ conns[1].err = 0
  /\ Len(wlog[1]) = 1
  /\ conns[2].pc = "stream"
  /\ Cardinality(subscribers) = 1
  /\ vobjs[conns[1].vid].subs = 1

\* the error codes of parsePublishParams that come before the checks of the
\* delay, and those of withRateLimit and of the topic resolution
BeforeDelay == {42901, 40009, 40010, 42904, 40013, 42902, 40001, 40007}

\* C32: delay validation: every cache entry with published = FALSE belongs to
\* a request that asked for a delay with caching enabled and without an
\* e-mail recipient; a request accepted with a delay gets a delivery time T
\* with now + min-delay <= T <= now + max-delay; a delay with cache=no is
\* answered 40002, with an e-mail recipient 40003, an unparsable one 40004,
\* one too small 40005 and one too large 40006, and a request answered with
\* one of these codes has no cache entry.
C32_DelayValidation ==
  /\ [](\A i \in DOMAIN cache : ~cache[i].published =>
          LET q == pubs[cache[i].id] IN
            /\ q.err = 0
            /\ q.asked[1] # 0 /\ q.asked[2] /\ ~q.asked[3]
            /\ q.time = cache[i].time)
  /\ [](\A m \in Msgs : pubs[m].err \in 40002..40006 =>
          \A i \in DOMAIN cache : cache[i].id # m)
  /\ [][\A m \in Msgs :
          pubs[m].pc = "idle" /\ pubs'[m].pc # "idle" /\ pubs'[m].err \notin BeforeDelay
            /\ pubs'[m].asked[1] # 0 =>
          LET q == pubs'[m]
              d == q.asked[1]
          IN  /\ cache' = cache
              /\ q.err = IF ~q.asked[2] THEN 40002
                         ELSE IF q.asked[3] THEN 40003
                         ELSE IF d < 0 THEN 40004
                         ELSE IF d < config.MinDelay THEN 40005
                         ELSE IF d > config.MaxDelay THEN 40006
                         ELSE 0
              /\ q.err = 0 => /\ q.time = now + d
                              /\ now + config.MinDelay <= q.time
                              /\ q.time <= now + config.MaxDelay]_vars

C32_Witness ==
  /\ \E i \in DOMAIN cache : cache[i].id = 1 /\ ~cache[i].published
  /\ pubs[1].pc = "done" /\ pubs[1].cachedAs = "scheduled"
  /\ pubs[2].pc = "done" /\ pubs[2].err = 40003

\* the calls the scheduled-delivery loop is to make for due[i..n], in order
RECURSIVE DueSteps(_, _, _)
DueSteps(due, i, n) ==
  IF i > n THEN <<>>
  ELSE (IF topics[due[i].topic] # 0 THEN <<<<"Publish", due[i].id>>>> ELSE <<>>)
         \o (IF config.Firebase THEN <<<<"firebase", due[i].id>>>> ELSE <<>>)
         \o <<<<"MarkPublished", due[i].id>>>>
         \o DueSteps(due, i + 1, n)

\* C33: scheduler step order: for each due message the scheduled-delivery
\* loop fans out on the topic iff the topic is in the registry, then calls
\* the push hook if one is configured, then MarkPublished; a message whose
\* MarkPublished fails has been fanned out and pushed before, and a message
\* whose topic is not in the registry is not fanned out but is pushed and
\* marked.
C33_SchedulerStepOrder ==
  [][lastSender' # lastSender =>
       LET due == MessagesDue(cache) IN
         /\ batch'.due = [i \in DOMAIN due |-> due[i].id]
         /\ batch'.done <= Len(due)
         /\ batch'.log = DueSteps(due, 1, batch'.done)
         /\ \A i \in 1..batch'.done :
              /\ topics[due[i].topic] # 0 <=>
                   \E k \in (Len(fanouts) + 1)..Len(fanouts') :
                     fanouts'[k].m = due[i].id /\ fanouts'[k].by = "sender"
              /\ config.Firebase => [m |-> due[i].id, by |-> "sender"] \in pushed'
              /\ i < batch'.done =>
                   \E j \in DOMAIN cache' : cache'[j].id = due[i].id /\ cache'[j].published]_vars

C33_Witness ==
  /\ batch.done = 1
  /\ batch.log = << <<"firebase", 1>>, <<"MarkPublished", 1>> >>
  /\ \E j \in DOMAIN cache : cache[j].id = 1 /\ cache[j].published
  /\ \A k \in DOMAIN fanouts : fanouts[k].m # 1
  /\ [m |-> 1, by |-> "sender"] \in pushed

\* C34: SetUser frame: when SetUser(u) has run up to its unlock, the request,
\* message, e-mail, bandwidth, account and auth limiters are all newly
\* assigned if the tier id of u differs from that of the user before, and
\* otherwise they and their consumed counts are as SetUser found them; the
\* subscription limiter is never replaced, and its count is the number of
\* handlers that SubscriptionAllowed admitted and that have not yet called
\* RemoveSubscription.
C34_SetUserFrame ==
  /\ vlim.w /\ vlim.next = 6 =>
       IF vlim.before.tier # vlim.tier
         THEN /\ \A f \in DOMAIN vlim.lim :
                   vlim.lim[f] = vlim.resets /\ vlim.lim[f] # vlim.before.lim[f]
                                             /\ vlim.used[f] = 0
              /\ \A f \in DOMAIN vlim.other :
                   vlim.other[f] = IF vlim.user = 0 THEN vlim.resets ELSE 0
         ELSE /\ vlim.lim = vlim.before.lim
              /\ vlim.used = vlim.before.used
              /\ vlim.other = vlim.before.other
  /\ vlim.subscriptionLimiter = 1
  /\ vlim.subs = Cardinality({x \in Readers : vlim.rd[x].sub})

C34_Witness ==
  /\ vlim.w /\ vlim.next = 6 /\ vlim.before.tier # vlim.tier
  /\ vlim.before.used["requestLimiter"] = 1
  /\ vlim.rd[1].sub /\ vlim.subs = 1
  /\ vlim.resets = 3

\* C35: registry identity: a topic object with at least one registered
\* subscriber callback is the object that the registry holds under its name.
C35_RegistryIdentity ==
  \A s \in subscribers : topics[s.t] = s.g

\* C36: no replay/live gap: once a publish request with caching enabled has
\* succeeded, a streaming subscriber of its topic with since=all that has
\* finished its replay and has no callback invocation outstanding has been
\* written the message, by replay or by live delivery.
C36_NoReplayLiveGap ==
  \A c \in Conns, m \in Msgs :
    /\ conns[c].pc = "stream" /\ conns[c].sinceKind = "all"
    /\ pubs[m].topic \in {conns[c].ids[i] : i \in DOMAIN conns[c].ids}
    /\ pubs[m].pc = "done" /\ pubs[m].err = 0 /\ pubs[m].cachedAs = "published"
    /\ ~pubs[m].delayed
    /\ ~\E d \in inflight : d.c = c
    => Written(c, m) >= 1

\* C37: no orphaned attachment files: once a publish request has finished,
\* every file it wrote to the file cache is referenced by a cache entry with
\* the id of its message.
C37_NoOrphanedAttachments ==
  \A m \in Msgs :
    pubs[m].pc = "done" /\ pubs[m].stored > 0 =>
      \E i \in DOMAIN cache : cache[i].id = m

\* C38: the broker mutex is always released: whoever holds s.mu is still
\* inside the critical section it opened (Run, the unix-listener goroutine,
\* Stop, or one of the methods that unlock by defer), so that no holder has
\* returned with the mutex locked.
C38_MutexReleased ==
  /\ srv.mu = "Run" => srv.run = "locked"
  /\ srv.mu = "unix" => srv.unix = "locked"
  /\ srv.mu = "Stop" => srv.stop = "locked"
  /\ srv.mu \in Callers => srv.call[srv.mu].at = "locked"

\* C39: topic resolution is all-or-nothing: the step of a publish or of a
\* subscribe request whose topic resolution fails (a disallowed name, or the
\* total topic limit reached) leaves the topic registry as it was.
C39_ResolutionAllOrNothing ==
  [][/\ \A c \in Conns :
          conns[c].pc = "idle" /\ conns'[c].pc # "idle" /\ conns'[c].err \in {40010, 42904}
            => topics' = topics
     /\ \A m \in Msgs :
          pubs[m].pc = "idle" /\ pubs'[m].pc # "idle" /\ pubs'[m].err \in {40010, 42904}
            => topics' = topics]_vars

\* C40: the shutdown signal is closed exactly once: Stop never closes a nil
\* or an already closed channel, and a channel that was closed is the one the
\* background loops select on.
C40_CloseOnce ==
  /\ srv.panic = ""
  /\ \A ch \in srv.closed : ch = srv.loops

====
